---- MODULE Spec2Model ----
(***************************************************************************)
(* Model of the SINAPI budget / composition parser (app/bases/sinapi).     *)
(*                                                                         *)
(* Text is modelled at token level: a line is the sequence of its          *)
(* whitespace-separated tokens (normalize_lines has already collapsed the  *)
(* whitespace), and every regular expression of parser.py is a predicate   *)
(* over token sequences.  The character classes of the regular expressions *)
(* are tables over the token vocabulary.  Money is counted in cents.       *)
(***************************************************************************)
EXTENDS Integers, Sequences, FiniteSets, TLC

VARIABLES
    \* ---- budget pass (_parse_orcamento_sintetico) ----
    pc,              \* "start" | "loop" | "done" | "off"
    raw_lines,       \* the sanitized lines of the page range (parser.py:238)
    lines,           \* the budget window (parser.py:246)
    i,               \* 0-based index of the main loop
    root_filhos,     \* root["filhos"]: ids of the root's children
    nodes,           \* arena of the nodes created so far, in creation order
    stack,           \* ancestor stack: <<level, node id>>, id 0 is the root
    itens_plano,
    last_item_node,  \* id of the last pushed item node, 0 for None
    buf_item,
    avisos,
    erros,
    divergencias,
    calls,           \* history: one record per try_finalize_item call
    \* one call of _validate_item_math
    m_pc,            \* "off" | "call" | "ret"
    m_item,          \* item_node
    m_cfg,           \* fail_if_contaminated_text, toxic_markers
    m_res,           \* the returned (ok, reason)
    \* ---- composition pass (parse_composicoes_sinapi) ----
    c_pc,            \* "off" | "rows" | "done"
    item_refs,       \* the expected references handed over by the budget pass
    rows,            \* history: the table rows read so far
    current_item,
    current_bloco,   \* <<>> for None, <<bloco>> for an open block
    principais,      \* dict, as the list of its (key, value) entries
    auxiliares_globais,
    recovered_codes,
    comp_avisos,
    aliases_aux,
    itens_faltando,
    itens_extras,
    \* ---- one call of _choose_best_prefix_candidate ----
    p_pc,            \* "off" | "call" | "ret"
    p_expected,
    p_candidates,
    p_res,           \* the returned candidate, or None
    \* ---- the composition pass called a second time on the same input ----
    run_no,          \* 0 when off, else the number of the running call
    first_rows,      \* the rows the first call has read
    first_result,    \* what the first call has returned
    \* ---- one call of parse_ptbr_number ----
    n_pc,            \* "off" | "call" | "ret"
    n_value,         \* the string handed to parse_ptbr_number, one character per element
    n_res,           \* the returned number, or None
    \* ---- one request, from parse_endpoint to its response ----
    q_pc,            \* "off" | "received" | "routed" | "orcamento" | "parsed" | "responded"
    q_form,          \* the form fields, the document and the base configuration of the request
    q_ranges,        \* ranges, as parse_endpoint builds them
    q_orc_pages,     \* the pages the budget pass has read: <<>> or <<first, last>>
    q_comp_pages,    \* the pages the composition pass has read: <<>> or <<first, last>>
    q_avisos,        \* validacao.avisos
    q_erros,         \* validacao.erros
    q_status,        \* 0 while running, else the HTTP status of the response
    \* ---- two requests with their steps interleaved ----
    k_pc,            \* "off" | "alone" | "both"
    k_input,         \* what request A is asked to parse
    k_other,         \* what request B is asked to parse
    k_alone,         \* what request A returned when it ran alone
    k_parked,        \* the locals of the request that is not running now
    k_running,       \* "A" | "B"
    val,             \* config["validation"] of the base, as the budget pass reads it
    \* ---- one call of sanitize_lines ----
    s_pc,            \* "off" | "call" | "ret"
    s_lines,         \* the lines handed to sanitize_lines, one character per element
    s_out            \* the returned lines

bvars == <<pc, raw_lines, lines, i, root_filhos, nodes, stack, itens_plano,
           last_item_node, buf_item, avisos, erros, divergencias, calls>>

mvars == <<m_pc, m_item, m_cfg, m_res>>

cvars == <<c_pc, item_refs, rows, current_item, current_bloco, principais,
           auxiliares_globais, recovered_codes, comp_avisos, aliases_aux,
           itens_faltando, itens_extras>>

pvars == <<p_pc, p_expected, p_candidates, p_res>>

tvars == <<run_no, first_rows, first_result>>

nvars == <<n_pc, n_value, n_res>>

qvars == <<q_pc, q_form, q_ranges, q_orc_pages, q_comp_pages, q_avisos, q_erros, q_status>>

kvars == <<k_pc, k_input, k_other, k_alone, k_parked, k_running>>

gvars == <<val>>

svars == <<s_pc, s_lines, s_out>>

vars == <<bvars, mvars, cvars, pvars, tvars, nvars, qvars, kvars, gvars, svars>>

\* what the budget pass leaves alone
nonBudget == <<mvars, cvars, pvars, tvars, nvars, qvars, kvars, gvars, svars>>

\* what a call of _validate_item_math leaves alone
nonMath == <<bvars, cvars, pvars, tvars, nvars, qvars, kvars, gvars, svars>>

\* what the composition pass leaves alone
nonComp == <<bvars, mvars, pvars, tvars, nvars, qvars, kvars, gvars, svars>>

\* what a call of _choose_best_prefix_candidate leaves alone
nonPrefix == <<bvars, mvars, cvars, tvars, nvars, qvars, kvars, gvars, svars>>

\* what entering the composition pass a second time leaves alone
nonTwice == <<bvars, mvars, pvars, nvars, qvars, kvars, gvars, svars>>

\* what a call of parse_ptbr_number leaves alone
nonNumber == <<bvars, mvars, cvars, pvars, tvars, qvars, kvars, gvars, svars>>

\* what a request leaves alone
nonRequest == <<bvars, mvars, cvars, pvars, tvars, nvars, kvars, gvars, svars>>

\* what two interleaved requests leave alone
nonConcurrent == <<mvars, pvars, tvars, nvars, qvars, gvars, svars>>

\* what a call of sanitize_lines leaves alone
nonSanitize == <<bvars, mvars, cvars, pvars, tvars, nvars, qvars, kvars, gvars>>

----------------------------------------------------------------------------
(* Bounds *)

MaxLines == 4

----------------------------------------------------------------------------
(* Generic helpers *)

Min(a, b) == IF a < b THEN a ELSE b

Max(a, b) == IF a > b THEN a ELSE b

Abs(x) == IF x < 0 THEN -x ELSE x

Last(s) == s[Len(s)]

\* s[from..] with a 0-based Python slice s[a:b]
Slice(s, a, b) == SubSeq(s, a + 1, Min(b, Len(s)))

RECURSIVE Flatten(_)
Flatten(ss) == IF ss = <<>> THEN <<>> ELSE Head(ss) \o Flatten(Tail(ss))

Range(f) == {f[k] : k \in DOMAIN f}

SeqsUpTo(S, n) == UNION {[1..k -> S] : k \in 0..n}

----------------------------------------------------------------------------
(* Token tables: what each token of the vocabulary matches *)

\* \d+(?:\.\d+)* : dotted item numbers, with their number of dots
ItemDots ==
    ("1" :> 0) @@ ("2" :> 0) @@ ("1.1" :> 1) @@ ("1.2" :> 1) @@ ("1.1.1" :> 2)
    @@ ("1.1.1.1" :> 3)
    @@ ("88316" :> 0) @@ ("883164" :> 0)

\* _NUM, whole token: value in cents
NumVal ==
    ("1" :> 100) @@ ("2" :> 200) @@ ("88316" :> 8831600) @@ ("883164" :> 88316400)
    @@ ("1,00" :> 100) @@ ("5,00" :> 500) @@ ("20,00" :> 2000) @@ ("30,00" :> 3000)
    @@ ("60,00" :> 6000) @@ ("399,97" :> 39997) @@ ("600,10" :> 60010)
    @@ ("700,00" :> 70000) @@ ("1.000,00" :> 100000)
    @@ ("0,00" :> 0) @@ ("0,02" :> 2) @@ ("0,98" :> 98) @@ ("1,02" :> 102)
    @@ ("1,03" :> 103) @@ ("10,00" :> 1000) @@ ("55,00" :> 5500)
    @@ ("549,89" :> 54989) @@ ("550,00" :> 55000) @@ ("550,11" :> 55011)
    @@ ("550,12" :> 55012) @@ ("600,12" :> 60012)

Words == {"OBRA", "PISOS", "PISO", "ALVENARIA", "CERAMICO", "CUSTO", "TOTAL",
          "SEM", "BDI", "M2", "SINAPI", "COMPOSICAO", "RUA", "PAGINA"}

\* [0-9A-Z_]+ with re.IGNORECASE
CodigoToks == Words \cup {"1", "2", "88316", "883164"}

\* SINAPI|Próprio with re.IGNORECASE
FonteToks == {"SINAPI", "Sinapi", "Próprio"}

\* [A-Za-z0-9/%²³]+
UndToks == Words \cup {"1", "2", "88316", "883164", "Sinapi"}

\* COMPOSI(?:ÇÃO|CAO) with re.IGNORECASE
ComposicaoToks == {"COMPOSIÇÃO", "COMPOSICAO"}

\* tokens whose upper-case form contains a word of _GROUP_BLACKLIST
BlacklistToks == {"SINAPI", "Sinapi", "CUSTO", "BDI", "COMPOSIÇÃO", "Próprio"}

\* len(token)
TokLen(t) ==
    CASE t \in {"1", "2"} -> 1
      [] t = "M2" -> 2
      [] t \in {"1.1", "1.2", "RUA", "SEM", "BDI"} -> 3
      [] t \in {"OBRA", "PISO", "1,00", "5,00", "0,00", "0,02", "0,98", "1,02", "1,03"} -> 4
      [] t \in {"1.1.1", "88316", "PISOS", "CUSTO", "TOTAL", "20,00", "30,00", "60,00",
                 "10,00", "55,00"} -> 5
      [] t \in {"883164", "SINAPI", "Sinapi", "PAGINA", "399,97", "600,10", "700,00",
                 "549,89", "550,00", "550,11", "550,12", "600,12"} -> 6
      [] t \in {"Próprio", "1.1.1.1"} -> 7
      [] t \in {"CERAMICO", "1.000,00"} -> 8
      [] t = "ALVENARIA" -> 9
      [] t \in {"COMPOSICAO", "COMPOSIÇÃO"} -> 10

\* len(re.findall(_NUM, token)): the digit runs of the token
NumRuns(t) ==
    CASE t \in {"1.1", "1.2"} -> 2
      [] t = "1.1.1" -> 3
      [] t = "1.1.1.1" -> 4
      [] t \in DOMAIN NumVal \/ t = "M2" -> 1
      [] OTHER -> 0

IsItemNo(t) == t \in DOMAIN ItemDots

IsNum(t) == t \in DOMAIN NumVal

----------------------------------------------------------------------------
(* Configuration (config["sanitizer"], config["validation"]) *)

strip_inline_from == {"RUA"}

toxic_for_continuation == {"PAGINA"}

\* config["validation"] of a base: the shipped values, a base for which a missing
\* total is an error, and a base that writes a missing total as "-"
Validations ==
    { [missing_group_total_value |-> "", allow_missing_group_total |-> TRUE,
       report_all_group_checks |-> FALSE],
      [missing_group_total_value |-> "", allow_missing_group_total |-> FALSE,
       report_all_group_checks |-> FALSE],
      [missing_group_total_value |-> "-", allow_missing_group_total |-> TRUE,
       report_all_group_checks |-> FALSE] }

DefaultValidation ==
    [missing_group_total_value |-> "", allow_missing_group_total |-> TRUE,
     report_all_group_checks |-> FALSE]

missing_total_value == val.missing_group_total_value

allow_missing_group_total == val.allow_missing_group_total

fail_if_contaminated_text == TRUE

report_all_group_checks == val.report_all_group_checks

\* tolerances, in cents
tol_item_abs == 2

tol_group_abs == 5

\* 1 / item_rel and 1 / group_rel
inv_tol_item_rel == 5000

inv_tol_group_rel == 10000

----------------------------------------------------------------------------
(* money.parse_ptbr_number, on a token *)

ParsePtbrNumber(value) ==
    IF IsNum(value) THEN [some |-> TRUE, v |-> NumVal[value]]
    ELSE [some |-> FALSE, v |-> 0]

----------------------------------------------------------------------------
(* sanitizer.py, on token sequences *)

RECURSIVE FirstMarker(_, _, _)
\* index of the first token of s (from k on) that is a marker, Len(s)+1 if none
FirstMarker(s, markers, k) ==
    IF k > Len(s) THEN k
    ELSE IF s[k] \in markers THEN k
    ELSE FirstMarker(s, markers, k + 1)

clean_inline(text, markers) == SubSeq(text, 1, FirstMarker(text, markers, 1) - 1)

contains_any(text, markers) == \E k \in 1..Len(text) : text[k] \in markers

LooksLikeNewRow(ln) == Len(ln) >= 2 /\ IsItemNo(ln[1])

is_safe_continuation(next_line, toxic) ==
    /\ next_line # <<>>
    /\ ~(Len(next_line) >= 2 /\ IsItemNo(next_line[1]))
    /\ ~contains_any(next_line, toxic)

----------------------------------------------------------------------------
(* The regular expressions of parser.py *)

RE_ITEM_START(t) ==
    Len(t) >= 4 /\ IsItemNo(t[1]) /\ t[2] \in CodigoToks /\ t[3] \in FonteToks

RE_ITEM_COMPOSICAO_START(t) ==
    Len(t) >= 4 /\ IsItemNo(t[1]) /\ t[2] \in ComposicaoToks /\ t[3] \in FonteToks

\* the tail is the last five tokens, and a token precedes the unit
RE_ITEM_TAIL(t) ==
    /\ Len(t) >= 6
    /\ t[Len(t) - 4] \in UndToks
    /\ \A k \in 0..3 : IsNum(t[Len(t) - k])

RE_GROUP_WITH_TOTAL(t) == Len(t) >= 3 /\ IsItemNo(t[1]) /\ IsNum(Last(t))

RE_GROUP_NO_TOTAL(t) == Len(t) >= 2 /\ IsItemNo(t[1])

RE_ONLY_NUMBER(t) == Len(t) = 1 /\ IsNum(t[1])

RECURSIVE DescLen(_)
\* len(desc): the tokens and the single spaces between them
DescLen(desc) ==
    IF desc = <<>> THEN 0
    ELSE TokLen(Head(desc)) + (IF Len(desc) > 1 THEN 1 ELSE 0) + DescLen(Tail(desc))

RECURSIVE DescNumRuns(_)
DescNumRuns(desc) ==
    IF desc = <<>> THEN 0 ELSE NumRuns(Head(desc)) + DescNumRuns(Tail(desc))

IsProbableGroupHeading(desc) ==
    /\ DescLen(desc) >= 3
    /\ \A k \in 1..Len(desc) : desc[k] \notin BlacklistToks
    /\ DescNumRuns(desc) < 2

Level(item) == ItemDots[item] + 1

----------------------------------------------------------------------------
(* Nodes of the budget tree (dicts of parser.py, OrcamentoItem of schemas.py) *)

NoNode ==
    [tipo |-> "none", item |-> "", descricao |-> <<>>, custo_total |-> "",
     codigo |-> "", fonte |-> "", especificacao |-> <<>>, und |-> "",
     quant |-> "", custo_unitario_sem_bdi |-> "", custo_unitario_com_bdi |-> "",
     custo_parcial |-> "", filhos |-> <<>>]

GroupNode(item, desc, total) ==
    [NoNode EXCEPT !.tipo = IF ItemDots[item] = 0 THEN "meta" ELSE "submeta",
                   !.item = item, !.descricao = desc, !.custo_total = total]

\* _try_parse_item_row with the two unit costs of the tail exchanged
ItemNodeSwapsUnitCosts(text, codigo) ==
    LET n == Len(text)
        rest == SubSeq(text, 4, n)
        stripped == IF RE_ITEM_TAIL(rest) THEN SubSeq(rest, 1, Len(rest) - 5) ELSE rest
    IN [NoNode EXCEPT !.tipo = "item", !.item = text[1], !.codigo = codigo,
                      !.fonte = text[3],
                      !.especificacao = clean_inline(stripped, strip_inline_from),
                      !.und = text[n - 4], !.quant = text[n - 3],
                      !.custo_unitario_sem_bdi = text[n - 1],
                      !.custo_unitario_com_bdi = text[n - 2],
                      !.custo_parcial = text[n]]

\* the fields of an item row: the tail is read from `text`, the description is
\* `rest` without its own tail, cut at the first inline marker
ItemNode(text, codigo) ==
    LET n == Len(text)
        rest == SubSeq(text, 4, n)
        stripped == IF RE_ITEM_TAIL(rest) THEN SubSeq(rest, 1, Len(rest) - 5) ELSE rest
    IN [NoNode EXCEPT !.tipo = "item", !.item = text[1], !.codigo = codigo,
                      !.fonte = text[3],
                      !.especificacao = clean_inline(stripped, strip_inline_from),
                      !.und = text[n - 4], !.quant = text[n - 3],
                      !.custo_unitario_sem_bdi = text[n - 2],
                      !.custo_unitario_com_bdi = text[n - 1],
                      !.custo_parcial = text[n]]

TryParseItemRow(text) ==
    IF RE_ITEM_START(text) /\ RE_ITEM_TAIL(text)
    THEN [some |-> TRUE, node |-> ItemNode(text, text[2])]
    ELSE [some |-> FALSE, node |-> NoNode]

TryParseComposicaoItemRow(line) ==
    IF RE_ITEM_COMPOSICAO_START(line) /\ RE_ITEM_TAIL(line)
    THEN [some |-> TRUE, node |-> ItemNode(line, "COMPOSICAO")]
    ELSE [some |-> FALSE, node |-> NoNode]

----------------------------------------------------------------------------
(* Arithmetic validation of one item *)

\* abs(expected - p) <= tol in IEEE-754 doubles when the decimal difference
\* equals the decimal tolerance exactly: over the vocabulary of NumVal the double
\* comparison then holds only for the products q*u of at most 0.04
\* (0 * 5,00 against 0,02 holds; 1,00 * 1,00 against 1,02 gives
\* 0.020000000000000018 <= 0.02, which does not)
DoubleTieHolds(q, u, p) == q * u <= 400

\* expected = q * u; tol = max(tol_abs, abs(expected) * tol_rel);
\* abs(expected - p) <= tol, on cents, in units of 1/10000. Away from an exact
\* tie the double comparison and the decimal one agree.
ItemMathWithin(q, u, p, tol_abs, inv_tol_rel) ==
    LET expected == q * u
        diff == Abs(expected - p * 100)
        rel == Abs(expected) \div inv_tol_rel
        frac == Abs(expected) % inv_tol_rel
        tol == Max(tol_abs * 100, rel)
        below == diff < tol \/ (diff = tol /\ rel >= tol_abs * 100 /\ frac > 0)
        tie == diff = tol /\ ~(rel >= tol_abs * 100 /\ frac > 0)
    IN below \/ (tie /\ DoubleTieHolds(q, u, p))

ValidateItemMath(item_node, tol_abs, inv_tol_rel, fail_if_contaminated, toxic_markers) ==
    LET q == ParsePtbrNumber(item_node.quant)
        u == ParsePtbrNumber(item_node.custo_unitario_com_bdi)
        p == ParsePtbrNumber(item_node.custo_parcial)
    IN IF /\ fail_if_contaminated
          /\ toxic_markers # {}
          /\ contains_any(item_node.especificacao, toxic_markers)
       THEN [ok |-> FALSE, reason |-> "contaminada"]
       ELSE IF ~q.some \/ ~u.some \/ ~p.some
       THEN [ok |-> TRUE, reason |-> "nao parseavel"]
       ELSE IF ItemMathWithin(q.v, u.v, p.v, tol_abs, inv_tol_rel)
       THEN [ok |-> TRUE, reason |-> "ok"]
       ELSE [ok |-> FALSE, reason |-> "parcial"]

----------------------------------------------------------------------------
(* try_finalize_item *)

ItemDivergence(node, cid) ==
    [tipo |-> "item", item |-> node.item, node |-> 0, call |-> cid]

ItemError(node, cid) ==
    [k |-> "item", item |-> node.item, node |-> 0, call |-> cid]

RECURSIVE FinalizeFrom(_, _, _, _, _, _)
\* one round of the loop over extra_used; `out` holds what the rounds so far
\* appended to avisos, divergencias and erros
FinalizeFrom(buffer_lines, lookahead_lines, cur, extra_used, cid, out) ==
    LET max_extra == Min(2, Len(lookahead_lines))
        p1 == TryParseItemRow(Flatten(cur))
        p2 == IF p1.some THEN p1 ELSE TryParseComposicaoItemRow(buffer_lines[1])
        out1 == IF ~p1.some /\ p2.some
                THEN [out EXCEPT !.avisos = Append(@, [k |-> "composicao", item |-> p2.node.item])]
                ELSE out
        borrow == /\ extra_used < max_extra
                  /\ ~LooksLikeNewRow(lookahead_lines[extra_used + 1])
        more == Append(cur, lookahead_lines[extra_used + 1])
    IN IF p2.some
       THEN LET v == ValidateItemMath(p2.node, tol_item_abs, inv_tol_item_rel,
                                      fail_if_contaminated_text, strip_inline_from)
                out2 == [out1 EXCEPT !.divergencias = Append(@, ItemDivergence(p2.node, cid))]
            IN IF v.ok
               THEN [out1 EXCEPT !.some = TRUE, !.parsed = p2.node, !.used = extra_used,
                                 !.valid = TRUE]
               ELSE IF borrow
               THEN FinalizeFrom(buffer_lines, lookahead_lines, more, extra_used + 1, cid, out2)
               ELSE [out2 EXCEPT !.some = TRUE, !.parsed = p2.node, !.used = extra_used,
                                 !.erros = Append(@, ItemError(p2.node, cid))]
       ELSE IF borrow
       THEN FinalizeFrom(buffer_lines, lookahead_lines, more, extra_used + 1, cid, out1)
       ELSE [out1 EXCEPT !.used = extra_used]

TryFinalizeItem(buffer_lines, lookahead_lines, cid) ==
    FinalizeFrom(buffer_lines, lookahead_lines, buffer_lines, 0, cid,
                 [some |-> FALSE, parsed |-> NoNode, used |-> 0, valid |-> FALSE,
                  avisos |-> <<>>, divergencias |-> <<>>, erros |-> <<>>])

----------------------------------------------------------------------------
(* push_node *)

RECURSIVE PopStackKeepsEqualLevel(_, _)
\* push_node with `>` in place of `>=`: an entry of the same level stays
PopStackKeepsEqualLevel(stk, level) ==
    IF stk # <<>> /\ Last(stk)[1] > level
    THEN PopStackKeepsEqualLevel(SubSeq(stk, 1, Len(stk) - 1), level)
    ELSE stk

RECURSIVE PopStack(_, _)
PopStack(stk, level) ==
    IF stk # <<>> /\ Last(stk)[1] >= level
    THEN PopStack(SubSeq(stk, 1, Len(stk) - 1), level)
    ELSE stk

\* parser.py:281 with the node put in front of its siblings
AppendChildInFront(filhos, id) == <<id>> \o filhos

\* parent.setdefault("filhos", []).append(node)
AppendChild(filhos, id) == Append(filhos, id)

\* the tree after push_node(node): t is [root_filhos, nodes, stack, last_item_node]
PushNode(t, node) ==
    LET id == Len(t.nodes) + 1
        level == Level(node.item)
        popped == PopStack(t.stack, level)
        parent == Last(popped)[2]
    IN [root_filhos |-> IF parent = 0 THEN AppendChild(t.root_filhos, id) ELSE t.root_filhos,
        nodes |-> Append(IF parent = 0 THEN t.nodes
                         ELSE [t.nodes EXCEPT ![parent].filhos = AppendChild(@, id)],
                         node),
        stack |-> Append(popped, <<level, id>>),
        last_item_node |-> IF node.tipo = "item" THEN id ELSE t.last_item_node]

Tree == [root_filhos |-> root_filhos, nodes |-> nodes, stack |-> stack,
         last_item_node |-> last_item_node]

SetTree(t) ==
    /\ root_filhos' = t.root_filhos
    /\ nodes' = t.nodes
    /\ stack' = t.stack
    /\ last_item_node' = t.last_item_node

----------------------------------------------------------------------------
(* _validate_tree_math *)

\* abs(child_sum - ct) > max(tol_abs, abs(ct) * tol_rel), on cents; no sum of
\* partial costs of the lines below lies exactly at the tolerance of a total,
\* the one place where the double comparison could differ from the decimal one
GroupMathOutside(child_sum, ct, tol_abs, inv_tol_rel) ==
    Abs(child_sum - ct) > Max(tol_abs, Abs(ct) \div inv_tol_rel)

\* soma_filhos is child_sum in cents (the source writes it with two decimals)
GroupDivergence(id, node, child_sum) ==
    [tipo |-> "grupo", item |-> node.item, node |-> id, call |-> 0,
     soma_filhos |-> child_sum]

GroupError(id, node) ==
    [k |-> "grupo", item |-> node.item, node |-> id, call |-> 0]

RECURSIVE ValidateTreeMathAddsDeclaredTotal(_, _, _)
\* _validate_tree_math with a child group counted by its declared total
ValidateTreeMathAddsDeclaredTotal(ids, ns, out) ==
    IF ids = <<>> THEN out
    ELSE
    LET id == Head(ids)
        node == ns[id]
    IN IF node.tipo = "item"
       THEN LET v == ParsePtbrNumber(node.custo_parcial)
            IN ValidateTreeMathAddsDeclaredTotal(Tail(ids), ns,
                                [out EXCEPT !.sum = @ + (IF v.some THEN v.v ELSE 0)])
       ELSE
       LET sub == ValidateTreeMathAddsDeclaredTotal(node.filhos, ns, [out EXCEPT !.sum = 0])
           child_sum == sub.sum
           ct_raw == node.custo_total
           ct == ParsePtbrNumber(ct_raw)
           outside == GroupMathOutside(child_sum, ct.v, tol_group_abs, inv_tol_group_rel)
           summed == [sub EXCEPT !.sum = out.sum + (IF ct.some THEN ct.v ELSE child_sum)]
           checked ==
               IF ct_raw = "" \/ ct_raw = missing_total_value THEN summed
               ELSE IF ~ct.some
               THEN [summed EXCEPT !.avisos = Append(@, [k |-> "custo_total", item |-> node.item])]
               ELSE [summed EXCEPT
                       !.divergencias = IF report_all_group_checks \/ outside
                                        THEN Append(@, GroupDivergence(id, node, child_sum)) ELSE @,
                       !.erros = IF outside THEN Append(@, GroupError(id, node)) ELSE @]
       IN ValidateTreeMathAddsDeclaredTotal(Tail(ids), ns, checked)

RECURSIVE ValidateTreeMath(_, _, _)
\* out.sum is total_sum; the lists of out are appended to in visiting order
ValidateTreeMath(ids, ns, out) ==
    IF ids = <<>> THEN out
    ELSE
    LET id == Head(ids)
        node == ns[id]
    IN IF node.tipo = "item"
       THEN LET v == ParsePtbrNumber(node.custo_parcial)
            IN ValidateTreeMath(Tail(ids), ns,
                                [out EXCEPT !.sum = @ + (IF v.some THEN v.v ELSE 0)])
       ELSE
       LET sub == ValidateTreeMath(node.filhos, ns, [out EXCEPT !.sum = 0])
           child_sum == sub.sum
           ct_raw == node.custo_total
           ct == ParsePtbrNumber(ct_raw)
           outside == GroupMathOutside(child_sum, ct.v, tol_group_abs, inv_tol_group_rel)
           summed == [sub EXCEPT !.sum = out.sum + child_sum]
           checked ==
               IF ct_raw = "" \/ ct_raw = missing_total_value THEN summed
               ELSE IF ~ct.some
               THEN [summed EXCEPT !.avisos = Append(@, [k |-> "custo_total", item |-> node.item])]
               ELSE [summed EXCEPT
                       !.divergencias = IF report_all_group_checks \/ outside
                                        THEN Append(@, GroupDivergence(id, node, child_sum)) ELSE @,
                       !.erros = IF outside THEN Append(@, GroupError(id, node)) ELSE @]
       IN ValidateTreeMath(Tail(ids), ns, checked)

----------------------------------------------------------------------------
(* The lines of the model: sanitized lines as _parse_orcamento_sintetico sees
   them at parser.py:238 *)

G1 == <<"1", "OBRA", "1.000,00">>

G3N == <<"1.1.1", "PISOS">>

NUMBER == <<"60,00">>

IOK == <<"1.1", "88316", "SINAPI", "ALVENARIA", "M2", "20,00", "5,00", "30,00", "600,10">>

IBAD == <<"1.1.1", "88316", "SINAPI", "ALVENARIA", "M2", "20,00", "5,00", "30,00", "700,00">>

IOPEN == <<"1.2", "883164", "SINAPI", "PISO">>

TAIL == <<"M2", "1,00", "5,00", "399,97", "399,97">>

IEXACT == <<"1.2", "883164", "Próprio", "PISO", "M2", "10,00", "5,00", "55,00", "550,00">>

TEXT == <<"CERAMICO">>

SUSPECT == <<"2", "CUSTO", "5,00">>

G4 == <<"1.1.1.1", "PISO", "5,00">>

Catalogue == {G1, G3N, G4, NUMBER, IOK, IBAD, IEXACT, IOPEN, TAIL, TEXT, SUSPECT}

----------------------------------------------------------------------------
(* _parse_orcamento_sintetico *)

IsTotalsLine(ln) ==
    \E k \in 1..(Len(ln) - 2) :
        ln[k] = "TOTAL" /\ ln[k + 1] \in {"SEM", "COM"} /\ ln[k + 2] = "BDI"

OpensWindow(ln) ==
    RE_GROUP_WITH_TOTAL(ln) /\ IsProbableGroupHeading(SubSeq(ln, 2, Len(ln) - 1))

RECURSIVE Window(_, _)
\* parser.py:245-256: from the first group heading with a total to the totals line
Window(raw, started) ==
    IF raw = <<>> THEN <<>>
    ELSE IF ~started
    THEN IF OpensWindow(Head(raw)) THEN <<Head(raw)>> \o Window(Tail(raw), TRUE)
         ELSE Window(Tail(raw), FALSE)
    ELSE IF IsTotalsLine(Head(raw)) THEN <<>>
    ELSE <<Head(raw)>> \o Window(Tail(raw), TRUE)

BudgetInit ==
    /\ pc = "start"
    /\ raw_lines \in SeqsUpTo(Catalogue, MaxLines)
    /\ lines = <<>>
    /\ i = 0
    /\ root_filhos = <<>>
    /\ nodes = <<>>
    /\ stack = << <<0, 0>> >>
    /\ itens_plano = <<>>
    /\ last_item_node = 0
    /\ buf_item = <<>>
    /\ avisos = <<>>
    /\ erros = <<>>
    /\ divergencias = <<>>
    /\ calls = <<>>

\* parser.py:238-270 with the empty window reported as a warning
StartWarnsOfEmptyWindow ==
    /\ pc = "start"
    /\ lines' = Window(raw_lines, FALSE)
    /\ IF lines' = <<>>
       THEN /\ avisos' = Append(avisos, [k |-> "sem_linhas", item |-> ""])
            /\ pc' = "done"
       ELSE /\ avisos' = avisos
            /\ pc' = "loop"
    /\ UNCHANGED <<raw_lines, i, root_filhos, nodes, stack, itens_plano, last_item_node,
                   buf_item, erros, divergencias, calls>>
    /\ UNCHANGED nonBudget

\* parser.py:238-270
Start ==
    /\ pc = "start"
    /\ lines' = Window(raw_lines, FALSE)
    /\ IF lines' = <<>>
       THEN /\ erros' = Append(erros, [k |-> "sem_linhas", item |-> "", node |-> 0, call |-> 0])
            /\ pc' = "done"
       ELSE /\ erros' = erros
            /\ pc' = "loop"
    /\ UNCHANGED <<raw_lines, i, root_filhos, nodes, stack, itens_plano, last_item_node,
                   buf_item, avisos, divergencias, calls>>
    /\ UNCHANGED nonBudget

\* history record of one try_finalize_item call: `first` is what the buffer
\* alone (no lookahead line) gives, "none" | "ok" | "fail"
CallRecord(buffer_lines, lookahead_lines, r) ==
    LET p1 == TryParseItemRow(Flatten(buffer_lines))
        p2 == IF p1.some THEN p1 ELSE TryParseComposicaoItemRow(buffer_lines[1])
        v == ValidateItemMath(p2.node, tol_item_abs, inv_tol_item_rel,
                              fail_if_contaminated_text, strip_inline_from)
    IN [buffer |-> buffer_lines, lookahead |-> lookahead_lines,
        first |-> IF ~p2.some THEN "none" ELSE IF v.ok THEN "ok" ELSE "fail",
        item0 |-> p2.node.item,
        some |-> r.some, valid |-> r.valid, used |-> r.used, item |-> r.parsed.item,
        node |-> IF r.some THEN Len(nodes) + 1 ELSE 0]

\* what one try_finalize_item call followed by `if parsed: push_node ...` does;
\* step is what the branch adds to i besides `used`
Finalize(buffer_lines, lookahead_lines, step) ==
    LET r == TryFinalizeItem(buffer_lines, lookahead_lines, Len(calls) + 1)
    IN /\ buf_item' = <<>>
       /\ avisos' = avisos \o r.avisos
       /\ divergencias' = divergencias \o r.divergencias
       /\ erros' = erros \o r.erros
       /\ calls' = Append(calls, CallRecord(buffer_lines, lookahead_lines, r))
       /\ IF r.some
          THEN /\ SetTree(PushNode(Tree, r.parsed))
               /\ itens_plano' = Append(itens_plano, r.parsed.item)
               /\ i' = i + r.used + step
          ELSE /\ UNCHANGED <<root_filhos, nodes, stack, last_item_node, itens_plano>>
               /\ i' = i + step

IsItemStartLine(t) == RE_ITEM_START(t) \/ RE_ITEM_COMPOSICAO_START(t)

InLoop == pc = "loop" /\ i < Len(lines)

ln == lines[i + 1]

\* parser.py:377-385 with the current line left behind by the `continue`
BufferNewRowConsumesLine ==
    /\ InLoop
    /\ buf_item # <<>>
    /\ LooksLikeNewRow(ln)
    /\ Finalize(buf_item, Slice(lines, i, i + 3), 1)
    /\ UNCHANGED <<pc, raw_lines, lines>>
    /\ UNCHANGED nonBudget

\* parser.py:377-385
BufferNewRow ==
    /\ InLoop
    /\ buf_item # <<>>
    /\ LooksLikeNewRow(ln)
    /\ Finalize(buf_item, Slice(lines, i, i + 3), 0)
    /\ UNCHANGED <<pc, raw_lines, lines>>
    /\ UNCHANGED nonBudget

\* parser.py:387-396
BufferAppend ==
    /\ InLoop
    /\ buf_item # <<>>
    /\ ~LooksLikeNewRow(ln)
    /\ IF RE_ITEM_TAIL(Flatten(Append(buf_item, ln)))
       THEN Finalize(Append(buf_item, ln), Slice(lines, i + 1, i + 3), 1)
       ELSE /\ buf_item' = Append(buf_item, ln)
            /\ i' = i + 1
            /\ UNCHANGED <<root_filhos, nodes, stack, last_item_node, itens_plano,
                           avisos, erros, divergencias, calls>>
    /\ UNCHANGED <<pc, raw_lines, lines>>
    /\ UNCHANGED nonBudget

\* parser.py:398-408
ItemStart ==
    /\ InLoop
    /\ buf_item = <<>>
    /\ IsItemStartLine(ln)
    /\ IF RE_ITEM_TAIL(ln)
       THEN Finalize(<<ln>>, Slice(lines, i + 1, i + 3), 1)
       ELSE /\ buf_item' = <<ln>>
            /\ i' = i + 1
            /\ UNCHANGED <<root_filhos, nodes, stack, last_item_node, itens_plano,
                           avisos, erros, divergencias, calls>>
    /\ UNCHANGED <<pc, raw_lines, lines>>
    /\ UNCHANGED nonBudget

NotItemStart == buf_item = <<>> /\ ~IsItemStartLine(ln)

AppendToLastItem(text) ==
    [nodes EXCEPT ![last_item_node].especificacao = @ \o clean_inline(text, strip_inline_from)]

\* parser.py:410-438
GroupWithTotal ==
    /\ InLoop
    /\ NotItemStart
    /\ RE_GROUP_WITH_TOTAL(ln)
    /\ LET item == ln[1]
           desc == SubSeq(ln, 2, Len(ln) - 1)
           total == Last(ln)
       IN IF ~IsProbableGroupHeading(desc)
          THEN IF last_item_node # 0 /\ is_safe_continuation(ln, toxic_for_continuation)
               THEN /\ nodes' = AppendToLastItem(ln)
                    /\ UNCHANGED <<root_filhos, stack, last_item_node, avisos>>
               ELSE /\ avisos' = Append(avisos, [k |-> "grupo_suspeito", item |-> item])
                    /\ SetTree(PushNode(Tree, GroupNode(item, desc, total)))
          ELSE /\ SetTree(PushNode(Tree, GroupNode(item, desc, total)))
               /\ avisos' = avisos
    /\ i' = i + 1
    /\ UNCHANGED <<pc, raw_lines, lines, itens_plano, buf_item, erros, divergencias, calls>>
    /\ UNCHANGED nonBudget

\* parser.py:440-463 without the `i += 1` of line 450
GroupNoTotalLeavesNumber ==
    /\ InLoop
    /\ NotItemStart
    /\ ~RE_GROUP_WITH_TOTAL(ln)
    /\ RE_GROUP_NO_TOTAL(ln)
    /\ IsProbableGroupHeading(SubSeq(ln, 2, Len(ln)))
    /\ LET item == ln[1]
           desc == SubSeq(ln, 2, Len(ln))
           peek == i + 1 < Len(lines) /\ RE_ONLY_NUMBER(lines[i + 2])
           total == IF peek THEN lines[i + 2][1] ELSE ""
       IN /\ IF total = ""
             THEN IF allow_missing_group_total
                  THEN /\ avisos' = Append(avisos, [k |-> "grupo_sem_total", item |-> item])
                       /\ erros' = erros
                  ELSE /\ erros' = Append(erros, [k |-> "grupo_sem_total", item |-> item,
                                                  node |-> Len(nodes) + 1, call |-> 0])
                       /\ avisos' = avisos
             ELSE UNCHANGED <<avisos, erros>>
          /\ SetTree(PushNode(Tree, GroupNode(item, desc,
                                 IF total = "" THEN missing_total_value ELSE total)))
          /\ i' = i + 1
    /\ UNCHANGED <<pc, raw_lines, lines, itens_plano, buf_item, divergencias, calls>>
    /\ UNCHANGED nonBudget

\* parser.py:440-463
GroupNoTotal ==
    /\ InLoop
    /\ NotItemStart
    /\ ~RE_GROUP_WITH_TOTAL(ln)
    /\ RE_GROUP_NO_TOTAL(ln)
    /\ IsProbableGroupHeading(SubSeq(ln, 2, Len(ln)))
    /\ LET item == ln[1]
           desc == SubSeq(ln, 2, Len(ln))
           peek == i + 1 < Len(lines) /\ RE_ONLY_NUMBER(lines[i + 2])
           total == IF peek THEN lines[i + 2][1] ELSE ""
       IN /\ IF total = ""
             THEN IF allow_missing_group_total
                  THEN /\ avisos' = Append(avisos, [k |-> "grupo_sem_total", item |-> item])
                       /\ erros' = erros
                  ELSE /\ erros' = Append(erros, [k |-> "grupo_sem_total", item |-> item,
                                                  node |-> Len(nodes) + 1, call |-> 0])
                       /\ avisos' = avisos
             ELSE UNCHANGED <<avisos, erros>>
          /\ SetTree(PushNode(Tree, GroupNode(item, desc,
                                 IF total = "" THEN missing_total_value ELSE total)))
          /\ i' = i + (IF peek THEN 2 ELSE 1)
    /\ UNCHANGED <<pc, raw_lines, lines, itens_plano, buf_item, divergencias, calls>>
    /\ UNCHANGED nonBudget

NoRowMatches ==
    /\ NotItemStart
    /\ ~RE_GROUP_WITH_TOTAL(ln)
    /\ ~(RE_GROUP_NO_TOTAL(ln) /\ IsProbableGroupHeading(SubSeq(ln, 2, Len(ln))))

\* parser.py:465-477
Continuation ==
    /\ InLoop
    /\ NoRowMatches
    /\ last_item_node # 0
    /\ is_safe_continuation(ln, toxic_for_continuation)
    /\ nodes' = AppendToLastItem(ln)
    /\ i' = i + 1
    /\ UNCHANGED <<pc, raw_lines, lines, root_filhos, stack, itens_plano, last_item_node,
                   buf_item, avisos, erros, divergencias, calls>>
    /\ UNCHANGED nonBudget

\* parser.py:479-480 without the `i += 1`
IgnoredStaysOnLine ==
    /\ InLoop
    /\ NoRowMatches
    /\ ~(last_item_node # 0 /\ is_safe_continuation(ln, toxic_for_continuation))
    /\ avisos' = Append(avisos, [k |-> "linha_ignorada", item |-> "", line |-> ln])
    /\ i' = i
    /\ UNCHANGED <<pc, raw_lines, lines, root_filhos, nodes, stack, itens_plano,
                   last_item_node, buf_item, erros, divergencias, calls>>
    /\ UNCHANGED nonBudget

\* parser.py:479-480
Ignored ==
    /\ InLoop
    /\ NoRowMatches
    /\ ~(last_item_node # 0 /\ is_safe_continuation(ln, toxic_for_continuation))
    /\ avisos' = Append(avisos, [k |-> "linha_ignorada", item |-> "", line |-> ln])
    /\ i' = i + 1
    /\ UNCHANGED <<pc, raw_lines, lines, root_filhos, nodes, stack, itens_plano,
                   last_item_node, buf_item, erros, divergencias, calls>>
    /\ UNCHANGED nonBudget

\* parser.py:482-500
Finish ==
    /\ pc = "loop"
    /\ i >= Len(lines)
    /\ LET r == IF buf_item # <<>> THEN TryFinalizeItem(buf_item, <<>>, Len(calls) + 1)
                ELSE [some |-> FALSE, parsed |-> NoNode, used |-> 0, valid |-> FALSE,
                      avisos |-> <<>>, divergencias |-> <<>>, erros |-> <<>>]
           t == IF r.some THEN PushNode(Tree, r.parsed) ELSE Tree
           v == ValidateTreeMath(t.root_filhos, t.nodes,
                                 [sum |-> 0, avisos |-> avisos \o r.avisos,
                                  erros |-> erros \o r.erros,
                                  divergencias |-> divergencias \o r.divergencias])
       IN /\ SetTree(t)
          /\ itens_plano' = IF r.some THEN Append(itens_plano, r.parsed.item) ELSE itens_plano
          /\ calls' = IF buf_item # <<>> THEN Append(calls, CallRecord(buf_item, <<>>, r))
                      ELSE calls
          /\ avisos' = v.avisos
          /\ erros' = v.erros
          /\ divergencias' = v.divergencias
    /\ buf_item' = <<>>
    /\ pc' = "done"
    /\ UNCHANGED <<raw_lines, lines, i>>
    /\ UNCHANGED nonBudget

BudgetNext ==
    \/ Start
    \/ BufferNewRow
    \/ BufferAppend
    \/ ItemStart
    \/ GroupWithTotal
    \/ GroupNoTotal
    \/ Continuation
    \/ Ignored
    \/ Finish

\* no call of _validate_item_math on its own is in progress
MathIdle ==
    /\ m_pc = "off"
    /\ m_item = NoNode
    /\ m_cfg = [fail_if_contaminated_text |-> fail_if_contaminated_text,
                toxic_markers |-> strip_inline_from]
    /\ m_res = [ok |-> FALSE, reason |-> ""]

\* no composition pass is running
CompIdle ==
    /\ c_pc = "off"
    /\ item_refs = <<>>
    /\ rows = <<>>
    /\ current_item = ""
    /\ current_bloco = <<>>
    /\ principais = <<>>
    /\ auxiliares_globais = <<>>
    /\ recovered_codes = <<>>
    /\ comp_avisos = <<>>
    /\ aliases_aux = <<>>
    /\ itens_faltando = <<>>
    /\ itens_extras = <<>>

\* no call of _choose_best_prefix_candidate on its own is in progress
PrefixIdle ==
    /\ p_pc = "off"
    /\ p_expected = <<>>
    /\ p_candidates = <<>>
    /\ p_res = [some |-> FALSE, v |-> <<>>]

TwiceIdle ==
    /\ run_no = 0
    /\ first_rows = <<>>
    /\ first_result = <<>>

NumberIdle ==
    /\ n_pc = "off"
    /\ n_value = <<>>
    /\ n_res = [some |-> FALSE, v |-> 0]

RequestIdle ==
    /\ q_pc = "off"
    /\ q_form = <<>>
    /\ q_ranges = <<>>
    /\ q_orc_pages = <<>>
    /\ q_comp_pages = <<>>
    /\ q_avisos = <<>>
    /\ q_erros = <<>>
    /\ q_status = 0

ConcurrentIdle ==
    /\ k_pc = "off"
    /\ k_input = <<>>
    /\ k_other = <<>>
    /\ k_alone = <<>>
    /\ k_parked = <<>>
    /\ k_running = "A"

SanitizeIdle ==
    /\ s_pc = "off"
    /\ s_lines = <<>>
    /\ s_out = <<>>

Init ==
    /\ BudgetInit
    /\ val \in Validations
    /\ MathIdle /\ CompIdle /\ PrefixIdle /\ TwiceIdle /\ NumberIdle /\ RequestIdle /\ ConcurrentIdle /\ SanitizeIdle

Next == BudgetNext

Spec == Init /\ [][Next]_vars

MaxRunLines == 2

\* the lines that follow the opening heading in the documents of the running pass
RunLines == {IOPEN, IOK, TAIL, TEXT, G3N, NUMBER}

\* the budget pass as it runs on a document of a group heading followed by up to
\* MaxRunLines lines, under the default validation settings
RunsInit ==
    /\ Init
    /\ val = DefaultValidation
    /\ raw_lines \in {<<G1>> \o t : t \in SeqsUpTo(RunLines, MaxRunLines)}

\* the interpreter takes the next step of the pass as long as there is one
SpecRuns == RunsInit /\ [][Next]_vars /\ WF_vars(Next)

----------------------------------------------------------------------------
(* _validate_tree_math called on its own, on trees drawn from its domain *)

MaxNodes == 4

\* the nodes a tree is drawn from: LineItems whose custo_parcial parses or not,
\* groups with an empty or a numeric custo_total
NodeKinds ==
    {[NoNode EXCEPT !.tipo = "item", !.item = "1.1", !.custo_parcial = p] :
         p \in {"5,00", "M2"}}
    \cup {[NoNode EXCEPT !.tipo = "submeta", !.item = "1.1", !.custo_total = t] :
              t \in {"", "5,00", "10,00"}}

RECURSIVE ChildrenOf(_, _, _)
\* the nodes from j on whose parent is k, in the order push_node appended them
ChildrenOf(parent, k, j) ==
    IF j > Len(parent) THEN <<>>
    ELSE (IF parent[j] = k THEN <<j>> ELSE <<>>) \o ChildrenOf(parent, k, j + 1)

\* the tree in which node j is of kind kinds[j] and hangs under parent[j]
TreeOf(parent, kinds) ==
    [root_filhos |-> ChildrenOf(parent, 0, 1),
     nodes |-> [j \in DOMAIN kinds |-> [kinds[j] EXCEPT !.filhos = ChildrenOf(parent, j, 1)]]]

TreeMathInit ==
    /\ pc = "validate"
    /\ \E n \in 1..MaxNodes :
       \E parent \in [1..n -> 0..(MaxNodes - 1)], kinds \in [1..n -> NodeKinds] :
           /\ \A j \in 1..n : parent[j] < j
           /\ root_filhos = TreeOf(parent, kinds).root_filhos
           /\ nodes = TreeOf(parent, kinds).nodes
    /\ val \in {DefaultValidation, [DefaultValidation EXCEPT !.report_all_group_checks = TRUE]}
    /\ raw_lines = <<>>
    /\ lines = <<>>
    /\ i = 0
    /\ stack = << <<0, 0>> >>
    /\ itens_plano = <<>>
    /\ last_item_node = 0
    /\ buf_item = <<>>
    /\ avisos = <<>>
    /\ erros = <<>>
    /\ divergencias = <<>>
    /\ calls = <<>>
    /\ MathIdle /\ CompIdle /\ PrefixIdle /\ TwiceIdle /\ NumberIdle /\ RequestIdle /\ ConcurrentIdle /\ SanitizeIdle

\* parser.py:489-498
ValidateTreeMathCall ==
    /\ pc = "validate"
    /\ LET v == ValidateTreeMath(root_filhos, nodes,
                                 [sum |-> 0, avisos |-> avisos, erros |-> erros,
                                  divergencias |-> divergencias])
       IN /\ avisos' = v.avisos
          /\ erros' = v.erros
          /\ divergencias' = v.divergencias
    /\ pc' = "validated"
    /\ UNCHANGED <<raw_lines, lines, i, root_filhos, nodes, stack, itens_plano,
                   last_item_node, buf_item, calls>>
    /\ UNCHANGED nonBudget

TreeMathNext == ValidateTreeMathCall

SpecTreeMath == TreeMathInit /\ [][TreeMathNext]_vars

----------------------------------------------------------------------------
(* _validate_item_math called on its own, on items drawn from its domain *)

\* item_node.get(field, ""): numeric fields, present or not, parseable or not
QuantToks == {"", "M2", "0,00", "1,00", "10,00", "20,00"}

UnitToks == {"", "1,00", "5,00", "30,00", "55,00"}

PartialToks == {"", "0,02", "0,98", "1,00", "1,02", "1,03", "549,89", "550,00",
                "550,11", "550,12", "600,10", "600,12", "700,00"}

EspecTexts == {<<"ALVENARIA">>, <<"ALVENARIA", "RUA">>}

\* no budget is being parsed
ValidationIdle == val = DefaultValidation

BudgetIdle ==
    /\ pc = "off"
    /\ raw_lines = <<>>
    /\ lines = <<>>
    /\ i = 0
    /\ root_filhos = <<>>
    /\ nodes = <<>>
    /\ stack = << <<0, 0>> >>
    /\ itens_plano = <<>>
    /\ last_item_node = 0
    /\ buf_item = <<>>
    /\ avisos = <<>>
    /\ erros = <<>>
    /\ divergencias = <<>>
    /\ calls = <<>>

MathInit ==
    /\ BudgetIdle
    /\ ValidationIdle
    /\ SanitizeIdle
    /\ ConcurrentIdle
    /\ RequestIdle
    /\ NumberIdle
    /\ CompIdle
    /\ PrefixIdle
    /\ TwiceIdle
    /\ m_pc = "call"
    /\ \E q \in QuantToks, u \in UnitToks, p \in PartialToks, e \in EspecTexts :
           m_item = [NoNode EXCEPT !.tipo = "item", !.item = "1.1", !.especificacao = e,
                                   !.quant = q, !.custo_unitario_com_bdi = u,
                                   !.custo_parcial = p]
    /\ m_cfg \in [fail_if_contaminated_text : BOOLEAN, toxic_markers : {{}, {"RUA"}}]
    /\ m_res = [ok |-> FALSE, reason |-> ""]

\* parser.py:540-565
ValidateItemMathCall ==
    /\ m_pc = "call"
    /\ m_res' = ValidateItemMath(m_item, tol_item_abs, inv_tol_item_rel,
                                 m_cfg.fail_if_contaminated_text, m_cfg.toxic_markers)
    /\ m_pc' = "ret"
    /\ UNCHANGED <<m_item, m_cfg>>
    /\ UNCHANGED nonMath

MathNext == ValidateItemMathCall

SpecItemMath == MathInit /\ [][MathNext]_vars

----------------------------------------------------------------------------
(* composicoes_parser.py: codes, banks and keys.

   A code is the sequence of its characters, so that its length, its prefixes
   and its normal form are computed.  A bank is one of a few spellings, with
   its normal form in a table.  A key "code|bank" is the pair of the two. *)

Code88316 == <<"8", "8", "3", "1", "6">>

Code8831 == <<"8", "8", "3", "1">>

Code8831Spaced == <<"8", "8", " ", "3", "1">>

Code883164 == <<"8", "8", "3", "1", "6", "4">>

Code883165 == <<"8", "8", "3", "1", "6", "5">>

Code8831641 == <<"8", "8", "3", "1", "6", "4", "1">>

Code8831642 == <<"8", "8", "3", "1", "6", "4", "2">>

Code74209 == <<"7", "4", "2", "0", "9">>

Code00000367 == <<"0", "0", "0", "0", "0", "3", "6", "7">>

\* str.upper() on one character
UpperOf(ch) == IF ch = "a" THEN "A" ELSE ch

\* code point order of the characters
CharRank ==
    (" " :> 0) @@ ("0" :> 1) @@ ("1" :> 2) @@ ("2" :> 3) @@ ("3" :> 4) @@ ("4" :> 5)
    @@ ("5" :> 6) @@ ("6" :> 7) @@ ("7" :> 8) @@ ("8" :> 9) @@ ("9" :> 10)
    @@ ("A" :> 11) @@ ("a" :> 12)

RECURSIVE _norm_code(_)
\* _strip_accents_upper(s).replace(" ", "")
_norm_code(s) ==
    IF s = <<>> THEN <<>>
    ELSE IF Head(s) = " " THEN _norm_code(Tail(s))
    ELSE <<UpperOf(Head(s))>> \o _norm_code(Tail(s))

\* _strip_accents_upper(s).replace(" ", "") on the spellings of a bank
_norm_bank(b) ==
    CASE b \in {"SINAPI", "Sinapi"} -> "SINAPI"
      [] b \in {"Próprio", "PROPRIO"} -> "PROPRIO"
      [] OTHER -> b

StartsWith(a, b) == Len(b) <= Len(a) /\ SubSeq(a, 1, Len(b)) = b

_prefix_match(a, b, max_missing, min_len) ==
    LET an == _norm_code(a)
        bn == _norm_code(b)
    IN IF an = <<>> \/ bn = <<>> THEN FALSE
       ELSE IF Min(Len(an), Len(bn)) < min_len THEN FALSE
       ELSE IF Abs(Len(an) - Len(bn)) > max_missing THEN FALSE
       ELSE StartsWith(an, bn) \/ StartsWith(bn, an)

_make_id(codigo, banco) == [codigo |-> codigo, banco |-> banco]

_make_id_norm(codigo, banco) == [codigo |-> _norm_code(codigo), banco |-> _norm_bank(banco)]

----------------------------------------------------------------------------
(* _choose_best_prefix_candidate *)

RECURSIVE StrLess(_, _)
\* a < b on str
StrLess(a, b) ==
    IF b = <<>> THEN FALSE
    ELSE IF a = <<>> THEN TRUE
    ELSE IF Head(a) # Head(b) THEN CharRank[Head(a)] < CharRank[Head(b)]
    ELSE StrLess(Tail(a), Tail(b))

\* (diff, -max(len(expn), len(cn)), cand)
Score(expn, cand) ==
    LET cn == _norm_code(cand)
    IN <<Abs(Len(expn) - Len(cn)), -Max(Len(expn), Len(cn)), cand>>

\* s < t on tuples
ScoreLess(s, t) ==
    \/ s[1] < t[1]
    \/ s[1] = t[1] /\ s[2] < t[2]
    \/ s[1] = t[1] /\ s[2] = t[2] /\ StrLess(s[3], t[3])

RECURSIVE InsertScore(_, _)
InsertScore(x, sorted) ==
    IF sorted = <<>> THEN <<x>>
    ELSE IF ScoreLess(x, Head(sorted)) THEN <<x>> \o sorted
    ELSE <<Head(sorted)>> \o InsertScore(x, Tail(sorted))

RECURSIVE SortScores(_)
\* scored.sort()
SortScores(scored) ==
    IF scored = <<>> THEN <<>>
    ELSE InsertScore(scored[Len(scored)], SortScores(SubSeq(scored, 1, Len(scored) - 1)))

\* _choose_best_prefix_candidate without the check for a tie
ChooseBestIgnoringTies(expected_code, candidates) ==
    IF candidates = <<>> THEN [some |-> FALSE, v |-> <<>>]
    ELSE
    LET expn == _norm_code(expected_code)
        scored == SortScores([k \in 1..Len(candidates) |-> Score(expn, candidates[k])])
    IN [some |-> TRUE, v |-> scored[1][3]]

_choose_best_prefix_candidate(expected_code, candidates) ==
    IF candidates = <<>> THEN [some |-> FALSE, v |-> <<>>]
    ELSE
    LET expn == _norm_code(expected_code)
        scored == SortScores([k \in 1..Len(candidates) |-> Score(expn, candidates[k])])
        best == scored[1]
    IN IF Len(scored) > 1 /\ scored[2][1] = best[1] /\ scored[2][2] = best[2]
       THEN [some |-> FALSE, v |-> <<>>]
       ELSE [some |-> TRUE, v |-> best[3]]

\* abs_tol 0.02, rel_tol 0.002, on cents; None is [some |-> FALSE]
_close(a, b) ==
    IF ~a.some \/ ~b.some THEN TRUE
    ELSE LET d == Abs(a.v - b.v)
         IN d <= 2 \/ d * 500 <= Abs(a.v)

----------------------------------------------------------------------------
(* parse_composicoes_sinapi: the data *)

MaxRows == 3

None == [some |-> FALSE, v |-> 0]

Some(x) == [some |-> TRUE, v |-> x]

\* dicts keep insertion order; d[k] = v on a list of (key, value) entries
DictHas(d, k) == \E n \in DOMAIN d : d[n].key = k

DictGet(d, k) == d[CHOOSE n \in DOMAIN d : d[n].key = k].value

DictPut(d, k, v) ==
    IF DictHas(d, k)
    THEN [n \in DOMAIN d |-> IF d[n].key = k THEN [key |-> k, value |-> v] ELSE d[n]]
    ELSE Append(d, [key |-> k, value |-> v])

DictKeys(d) == [n \in DOMAIN d |-> d[n].key]

\* a reference of _collect_item_refs: {"item": item, "ref_id": f"{codigo}|{banco}"};
\* it has no "sem_bdi" and no "com_bdi"
Ref(item, codigo, banco) == [item |-> item, ref_id |-> _make_id(codigo, banco)]

\* item_refs as the budget pass can hand them over: codes without spaces, banks
\* in any case, no COMPOSICAO placeholder, no 0000... SINAPI code
ExpectedRefLists ==
    { <<>>,
      <<Ref("1.1", Code88316, "SINAPI")>>,
      <<Ref("1.1", Code883164, "SINAPI")>>,
      <<Ref("1.1", Code883164, "SINAPI"), Ref("1.2", Code883165, "SINAPI")>>,
      <<Ref("1.1", Code883164, "SINAPI"), Ref("1.2", Code883164, "SINAPI")>>,
      <<Ref("1.1", Code8831641, "SINAPI"), Ref("1.2", Code8831642, "SINAPI")>>,
      <<Ref("1.1", Code88316, "SINAPI"), Ref("1.2", Code88316, "Sinapi")>>,
      <<Ref("1.1", Code74209, "Próprio")>>,
      <<Ref("1.1", Code8831, "SINAPI"), Ref("1.2", Code74209, "Próprio")>>,
      <<Ref("1.1", Code88316, "SINAPI"), Ref("2", Code74209, "Próprio")>> }

\* a table row after normalize_row, with the type detect_row_type gives it and
\* the cells build_entry_from_row reads: t is "header" (is_item_header_row),
\* "colheader" (is_column_header_only), "none" (detect_row_type gives None),
\* "composicao", "composicao_auxiliar" or "insumo"; embutido is the bank after
\* the "/" of the code cell
Row(t, item, codigo, embutido, banco, valor_unit) ==
    [t |-> t, item |-> item, codigo |-> codigo, embutido |-> embutido,
     banco |-> banco, valor_unit |-> valor_unit]

RowCatalogue ==
    { Row("header", "1.1", <<>>, "", "", None),
      Row("colheader", "", <<>>, "", "", None),
      Row("none", "", <<>>, "", "", None),
      Row("composicao", "", Code88316, "", "SINAPI", Some(1000)),
      Row("composicao", "", Code883164, "", "SINAPI", Some(1200)),
      Row("composicao", "", Code8831Spaced, "", "Sinapi", None),
      Row("composicao", "", Code74209, "", "Próprio", Some(500)),
      Row("composicao_auxiliar", "", Code883164, "", "SINAPI", Some(1200)),
      Row("composicao_auxiliar", "", Code883164, "", "Sinapi", Some(1200)),
      Row("composicao_auxiliar", "", Code88316, "", "SINAPI", Some(1000)),
      Row("insumo", "", Code00000367, "SINAPI", "", Some(300)) }

RowsOfType(t) == {r \in RowCatalogue : r.t = t}

\* build_entry_from_row: codigo and banco_final
Entry(row) ==
    LET banco_embutido == IF row.t = "insumo" THEN row.embutido ELSE ""
    IN [codigo |-> row.codigo,
        banco |-> IF banco_embutido # "" THEN banco_embutido ELSE row.banco,
        valor_unit |-> row.valor_unit]

\* LinhaComposicao / LinhaInsumo
Linha(entry) == [codigo |-> entry.codigo, banco |-> entry.banco, valor_unit |-> entry.valor_unit]

BlocoComposicao(item, principal) ==
    [item |-> item, principal |-> principal, composicoes_auxiliares |-> <<>>, insumos |-> <<>>]

\* _split_id(rid)
_split_id(rid) == <<rid.codigo, rid.banco>>

\* expected_by_bank[bn], composicoes_parser.py:290-307
ExpectedByBank(refs, bn) ==
    SelectSeq(refs, LAMBDA r : _norm_bank(_split_id(r.ref_id)[2]) = bn)

RECURSIVE IdToItem(_, _)
\* id_to_item.get(pid_norm, ""), composicoes_parser.py:308-309
IdToItem(refs, pid_norm) ==
    IF refs = <<>> THEN ""
    ELSE LET r == refs[Len(refs)]
         IN IF r.item # "" /\ _make_id_norm(r.ref_id.codigo, r.ref_id.banco) = pid_norm
            THEN r.item
            ELSE IdToItem(SubSeq(refs, 1, Len(refs) - 1), pid_norm)

recover_full_code(refs, code_raw, bank_raw) ==
    LET exp == ExpectedByBank(refs, _norm_bank(bank_raw))
        candidates == SelectSeq([n \in DOMAIN exp |-> exp[n].ref_id.codigo],
                                LAMBDA c : _prefix_match(c, code_raw, 4, 5))
    IN IF exp = <<>> THEN [some |-> FALSE, v |-> <<>>]
       ELSE _choose_best_prefix_candidate(code_raw, candidates)

----------------------------------------------------------------------------
(* parse_composicoes_sinapi: aliases and reconciliation *)

\* principais_by_bank[bn], composicoes_parser.py:461-464
PrincipaisByBank(pr, bn) ==
    LET ks == SelectSeq(DictKeys(pr), LAMBDA k : _norm_bank(_split_id(k)[2]) = bn)
    IN [n \in DOMAIN ks |-> _split_id(ks[n])[1]]

RECURSIVE AliasesFrom(_, _, _)
\* composicoes_parser.py:466-474
AliasesFrom(auxs, pr, out) ==
    IF auxs = <<>> THEN out
    ELSE
    LET aux_id == Head(auxs).key
        aux == Head(auxs).value
        bn == _norm_bank(aux.banco)
        cands == SelectSeq(PrincipaisByBank(pr, bn),
                           LAMBDA c : _prefix_match(c, aux.codigo, 1, 5))
        best == _choose_best_prefix_candidate(aux.codigo, cands)
    IN IF DictHas(pr, aux_id) THEN AliasesFrom(Tail(auxs), pr, out)
       ELSE IF best.some /\ best.v # <<>>
       THEN AliasesFrom(Tail(auxs), pr, DictPut(out, aux_id, _make_id(best.v, aux.banco)))
       ELSE AliasesFrom(Tail(auxs), pr, out)

\* str.isdigit()
IsDigit(c) ==
    c # <<>> /\ \A n \in DOMAIN c : c[n] \in {"0", "1", "2", "3", "4", "5", "6", "7", "8", "9"}

\* b.upper().strip()
BankUpper(b) ==
    CASE b \in {"SINAPI", "Sinapi"} -> "SINAPI"
      [] b = "Próprio" -> "PRÓPRIO"
      [] OTHER -> b

CodeCOMPOSICAO == <<"C", "O", "M", "P", "O", "S", "I", "C", "A", "O">>

\* r.get(k) on a reference: None when the reference has no key k
RefGet(r, k) == IF k \in DOMAIN r THEN r[k] ELSE None

RECURSIVE ExpectedNormFrom(_, _)
\* expected_norm, composicoes_parser.py:490-514
ExpectedNormFrom(refs, out) ==
    IF refs = <<>> THEN out
    ELSE
    LET r == Head(refs)
        c == _split_id(r.ref_id)[1]
        b == _split_id(r.ref_id)[2]
    IN IF _norm_code(c) = CodeCOMPOSICAO
       THEN ExpectedNormFrom(Tail(refs), out)
       ELSE IF BankUpper(b) = "SINAPI" /\ IsDigit(c) /\ StartsWith(c, <<"0", "0", "0", "0">>)
       THEN ExpectedNormFrom(Tail(refs), out)
       ELSE ExpectedNormFrom(Tail(refs),
                DictPut(out, _make_id_norm(c, b),
                        [rid |-> r.ref_id, code |-> c, bank |-> b,
                         sem_bdi |-> RefGet(r, "sem_bdi")]))

\* detected_norm_set computed on the raw keys
DetectedRawSet(pr) == {DictKeys(pr)[n] : n \in DOMAIN pr}

\* detected_norm_set, composicoes_parser.py:516-522
DetectedNormSet(pr) ==
    {_make_id_norm(_split_id(pr[n].key)[1], _split_id(pr[n].key)[2]) : n \in DOMAIN pr}

\* best_code for one unmatched expected reference, composicoes_parser.py:537-552
BestCode(exp, pr) ==
    LET bn == _norm_bank(exp.bank)
        det_list == SelectSeq(pr, LAMBDA e : _norm_bank(_split_id(e.key)[2]) = bn)
        candidates == SelectSeq(det_list,
                          LAMBDA e : _prefix_match(exp.code, _split_id(e.key)[1], 4, 5))
        filtered == SelectSeq(candidates,
                          LAMBDA e : _close(exp.sem_bdi, e.value.principal.valor_unit))
        chosen == IF filtered # <<>> THEN filtered ELSE candidates
    IN IF candidates = <<>> THEN [some |-> FALSE, v |-> <<>>]
       ELSE IF Len(candidates) = 1 THEN [some |-> TRUE, v |-> _split_id(candidates[1].key)[1]]
       ELSE _choose_best_prefix_candidate(exp.code,
                [n \in DOMAIN chosen |-> _split_id(chosen[n].key)[1]])

\* matched_expected, composicoes_parser.py:532-556
IsMatched(entry, pr) ==
    \/ entry.key \in DetectedNormSet(pr)
    \/ LET best == BestCode(entry.value, pr) IN best.some /\ best.v # <<>>

\* composicoes_parser.py:558-560
ItensFaltando(refs, pr) ==
    LET expected_norm == ExpectedNormFrom(refs, <<>>)
        missing == SelectSeq(expected_norm, LAMBDA e : ~IsMatched(e, pr))
    IN [n \in DOMAIN missing |-> missing[n].value.rid]

\* composicoes_parser.py:562-574
ItensExtras(refs, pr) ==
    LET expected_norm == ExpectedNormFrom(refs, <<>>)
        IsExtra(e) ==
            LET det_code == _split_id(e.key)[1]
                det_bank == _split_id(e.key)[2]
                exp_list == SelectSeq(expected_norm,
                                LAMBDA x : _norm_bank(x.value.bank) = _norm_bank(det_bank))
            IN /\ ~DictHas(expected_norm, _make_id_norm(det_code, det_bank))
               /\ ~\E n \in DOMAIN exp_list :
                       _prefix_match(det_code, exp_list[n].value.code, 4, 5)
        extras == SelectSeq(pr, IsExtra)
    IN [n \in DOMAIN extras |-> extras[n].key]

\* the warnings of composicoes_parser.py:556, in order
MatchAvisos(refs, pr) ==
    LET expected_norm == ExpectedNormFrom(refs, <<>>)
        fuzzy == SelectSeq(expected_norm,
                     LAMBDA e : e.key \notin DetectedNormSet(pr) /\ IsMatched(e, pr))
    IN [n \in DOMAIN fuzzy |->
           [k |-> "match_truncamento", rid |-> fuzzy[n].value.rid,
            to |-> _make_id(BestCode(fuzzy[n].value, pr).v, fuzzy[n].value.bank)]]

----------------------------------------------------------------------------
(* parse_composicoes_sinapi: the pass, one table row per step *)

CompInit ==
    /\ BudgetIdle
    /\ ValidationIdle
    /\ SanitizeIdle
    /\ ConcurrentIdle
    /\ RequestIdle
    /\ NumberIdle
    /\ MathIdle
    /\ PrefixIdle
    /\ TwiceIdle
    /\ c_pc = "rows"
    /\ item_refs \in ExpectedRefLists
    /\ rows = <<>>
    /\ current_item = ""
    /\ current_bloco = <<>>
    /\ principais = <<>>
    /\ auxiliares_globais = <<>>
    /\ recovered_codes = <<>>
    /\ comp_avisos = <<>>
    /\ aliases_aux = <<>>
    /\ itens_faltando = <<>>
    /\ itens_extras = <<>>

\* principais[pid] = current_bloco, when a block is open
StoreOpenBlock(pr, bloco) ==
    IF bloco = <<>> THEN pr
    ELSE DictPut(pr, _make_id(bloco[1].principal.codigo, bloco[1].principal.banco), bloco[1])

MoreRows == c_pc = "rows" /\ Len(rows) < MaxRows

\* composicoes_parser.py:360-366
HeaderRow ==
    /\ MoreRows
    /\ \E row \in RowsOfType("header") :
           /\ rows' = Append(rows, row)
           /\ principais' = StoreOpenBlock(principais, current_bloco)
           /\ current_bloco' = <<>>
           /\ current_item' = row.item
    /\ UNCHANGED <<c_pc, item_refs, auxiliares_globais, recovered_codes, comp_avisos,
                   aliases_aux, itens_faltando, itens_extras>>
    /\ UNCHANGED nonComp

\* composicoes_parser.py:368-369 with the block closed as an item header does
ColumnHeaderRowClosesBlock ==
    /\ MoreRows
    /\ \E row \in RowsOfType("colheader") : rows' = Append(rows, row)
    /\ principais' = StoreOpenBlock(principais, current_bloco)
    /\ current_bloco' = <<>>
    /\ UNCHANGED <<c_pc, item_refs, current_item,
                   auxiliares_globais, recovered_codes, comp_avisos, aliases_aux,
                   itens_faltando, itens_extras>>
    /\ UNCHANGED nonComp

\* composicoes_parser.py:368-369
ColumnHeaderRow ==
    /\ MoreRows
    /\ \E row \in RowsOfType("colheader") : rows' = Append(rows, row)
    /\ UNCHANGED <<c_pc, item_refs, current_item, current_bloco, principais,
                   auxiliares_globais, recovered_codes, comp_avisos, aliases_aux,
                   itens_faltando, itens_extras>>
    /\ UNCHANGED nonComp

\* composicoes_parser.py:371-378
UnclassifiedRow ==
    /\ MoreRows
    /\ \E row \in RowsOfType("none") : rows' = Append(rows, row)
    /\ UNCHANGED <<c_pc, item_refs, current_item, current_bloco, principais,
                   auxiliares_globais, recovered_codes, comp_avisos, aliases_aux,
                   itens_faltando, itens_extras>>
    /\ UNCHANGED nonComp

\* composicoes_parser.py:380-418 with the reference of the new block taken off
\* the list of expected references
ComposicaoRowConsumesReference ==
    /\ MoreRows
    /\ \E row \in RowsOfType("composicao") :
           LET entry == Entry(row)
               recovered_full == recover_full_code(item_refs, entry.codigo, entry.banco)
               recovers == /\ recovered_full.some
                           /\ recovered_full.v # <<>>
                           /\ _norm_code(recovered_full.v) # _norm_code(entry.codigo)
               key == _make_id(entry.codigo, entry.banco)
               codigo == IF recovers THEN recovered_full.v ELSE entry.codigo
               pid_norm == _make_id_norm(codigo, entry.banco)
               item_final == IF current_item # "" THEN current_item
                             ELSE IdToItem(item_refs, pid_norm)
               principal == Linha([entry EXCEPT !.codigo = codigo])
           IN /\ rows' = Append(rows, row)
              /\ principais' = StoreOpenBlock(principais, current_bloco)
              /\ IF recovers /\ ~DictHas(recovered_codes, key)
                 THEN /\ recovered_codes' = DictPut(recovered_codes, key, recovered_full.v)
                      /\ comp_avisos' = Append(comp_avisos,
                             [k |-> "recuperado", rid |-> key,
                              to |-> _make_id(recovered_full.v, entry.banco)])
                 ELSE UNCHANGED <<recovered_codes, comp_avisos>>
              /\ current_bloco' = <<BlocoComposicao(item_final, principal)>>
              /\ item_refs' = SelectSeq(item_refs, LAMBDA r :
                     _make_id_norm(r.ref_id.codigo, r.ref_id.banco) # pid_norm)
    /\ UNCHANGED <<c_pc, current_item, auxiliares_globais, aliases_aux,
                   itens_faltando, itens_extras>>
    /\ UNCHANGED nonComp

\* composicoes_parser.py:380-418
ComposicaoRow ==
    /\ MoreRows
    /\ \E row \in RowsOfType("composicao") :
           LET entry == Entry(row)
               recovered_full == recover_full_code(item_refs, entry.codigo, entry.banco)
               recovers == /\ recovered_full.some
                           /\ recovered_full.v # <<>>
                           /\ _norm_code(recovered_full.v) # _norm_code(entry.codigo)
               key == _make_id(entry.codigo, entry.banco)
               codigo == IF recovers THEN recovered_full.v ELSE entry.codigo
               pid_norm == _make_id_norm(codigo, entry.banco)
               item_final == IF current_item # "" THEN current_item
                             ELSE IdToItem(item_refs, pid_norm)
               principal == Linha([entry EXCEPT !.codigo = codigo])
           IN /\ rows' = Append(rows, row)
              /\ principais' = StoreOpenBlock(principais, current_bloco)
              /\ IF recovers /\ ~DictHas(recovered_codes, key)
                 THEN /\ recovered_codes' = DictPut(recovered_codes, key, recovered_full.v)
                      /\ comp_avisos' = Append(comp_avisos,
                             [k |-> "recuperado", rid |-> key,
                              to |-> _make_id(recovered_full.v, entry.banco)])
                 ELSE UNCHANGED <<recovered_codes, comp_avisos>>
              /\ current_bloco' = <<BlocoComposicao(item_final, principal)>>
    /\ UNCHANGED <<c_pc, item_refs, current_item, auxiliares_globais, aliases_aux,
                   itens_faltando, itens_extras>>
    /\ UNCHANGED nonComp

\* composicoes_parser.py:420-437
AuxiliarRow ==
    /\ MoreRows
    /\ \E row \in RowsOfType("composicao_auxiliar") :
           LET aux == Linha(Entry(row))
           IN /\ rows' = Append(rows, row)
              /\ IF current_bloco = <<>>
                 THEN UNCHANGED <<current_bloco, auxiliares_globais>>
                 ELSE /\ current_bloco' =
                             <<[current_bloco[1] EXCEPT
                                   !.composicoes_auxiliares = Append(@, aux)]>>
                      /\ auxiliares_globais' =
                             DictPut(auxiliares_globais, _make_id(aux.codigo, aux.banco), aux)
    /\ UNCHANGED <<c_pc, item_refs, current_item, principais, recovered_codes, comp_avisos,
                   aliases_aux, itens_faltando, itens_extras>>
    /\ UNCHANGED nonComp

\* composicoes_parser.py:420-422, 439-451
InsumoRow ==
    /\ MoreRows
    /\ \E row \in RowsOfType("insumo") :
           LET ins == Linha(Entry(row))
           IN /\ rows' = Append(rows, row)
              /\ IF current_bloco = <<>>
                 THEN UNCHANGED current_bloco
                 ELSE current_bloco' =
                          <<[current_bloco[1] EXCEPT !.insumos = Append(@, ins)]>>
    /\ UNCHANGED <<c_pc, item_refs, current_item, principais, auxiliares_globais,
                   recovered_codes, comp_avisos, aliases_aux, itens_faltando, itens_extras>>
    /\ UNCHANGED nonComp

\* composicoes_parser.py:453-576: the page range is exhausted
CompFinish ==
    /\ c_pc = "rows"
    /\ LET pr == StoreOpenBlock(principais, current_bloco)
           aliases == AliasesFrom(auxiliares_globais, pr, <<>>)
       IN /\ principais' = pr
          /\ aliases_aux' = aliases
          /\ itens_faltando' = IF item_refs # <<>> THEN ItensFaltando(item_refs, pr) ELSE <<>>
          /\ itens_extras' = IF item_refs # <<>> THEN ItensExtras(item_refs, pr) ELSE <<>>
          /\ comp_avisos' = comp_avisos
                 \o <<[k |-> "processadas", rid |-> _make_id(<<>>, ""),
                       to |-> _make_id(<<>>, "")]>>
                 \o (IF item_refs # <<>> THEN MatchAvisos(item_refs, pr) ELSE <<>>)
    /\ c_pc' = "done"
    /\ UNCHANGED <<item_refs, rows, current_item, current_bloco, auxiliares_globais,
                   recovered_codes>>
    /\ UNCHANGED nonComp

CompNext ==
    \/ HeaderRow
    \/ ColumnHeaderRow
    \/ UnclassifiedRow
    \/ ComposicaoRow
    \/ AuxiliarRow
    \/ InsumoRow
    \/ CompFinish

SpecComp == CompInit /\ [][CompNext]_vars

----------------------------------------------------------------------------
(* parse_composicoes_sinapi called twice on the same rows and references *)

\* what a call returns to parse_sinapi, composicoes_parser.py:476, 576
CompResult ==
    [principais |-> principais,
     auxiliares_globais |-> auxiliares_globais,
     aliases_auxiliares |-> aliases_aux,
     itens_faltando |-> itens_faltando,
     itens_extras |-> itens_extras]

\* a call whose current_item survives from the call before
LocalsKeepingCurrentItem ==
    [current_item |-> current_item, current_bloco |-> <<>>, principais |-> <<>>,
     auxiliares_globais |-> <<>>, recovered_codes |-> <<>>, comp_avisos |-> <<>>,
     aliases_aux |-> <<>>, itens_faltando |-> <<>>, itens_extras |-> <<>>]

\* the locals as every call creates them, composicoes_parser.py:258-259, 311,
\* 321-325, 460, 486-487
FreshLocals ==
    [current_item |-> "", current_bloco |-> <<>>, principais |-> <<>>,
     auxiliares_globais |-> <<>>, recovered_codes |-> <<>>, comp_avisos |-> <<>>,
     aliases_aux |-> <<>>, itens_faltando |-> <<>>, itens_extras |-> <<>>]

TwiceInit ==
    /\ BudgetIdle
    /\ ValidationIdle
    /\ SanitizeIdle
    /\ ConcurrentIdle
    /\ RequestIdle
    /\ NumberIdle
    /\ MathIdle
    /\ PrefixIdle
    /\ c_pc = "rows"
    /\ item_refs \in ExpectedRefLists
    /\ rows = <<>>
    /\ current_item = ""
    /\ current_bloco = <<>>
    /\ principais = <<>>
    /\ auxiliares_globais = <<>>
    /\ recovered_codes = <<>>
    /\ comp_avisos = <<>>
    /\ aliases_aux = <<>>
    /\ itens_faltando = <<>>
    /\ itens_extras = <<>>
    /\ run_no = 1
    /\ first_rows = <<>>
    /\ first_result = <<>>

\* the first call reads whatever rows the page range holds
FirstCall ==
    /\ run_no = 1
    /\ CompNext

\* the first call has returned; the function is entered again with the same
\* arguments
CallAgain ==
    /\ run_no = 1
    /\ c_pc = "done"
    /\ run_no' = 2
    /\ first_rows' = rows
    /\ first_result' = CompResult
    /\ c_pc' = "rows"
    /\ rows' = <<>>
    /\ current_item' = FreshLocals.current_item
    /\ current_bloco' = FreshLocals.current_bloco
    /\ principais' = FreshLocals.principais
    /\ auxiliares_globais' = FreshLocals.auxiliares_globais
    /\ recovered_codes' = FreshLocals.recovered_codes
    /\ comp_avisos' = FreshLocals.comp_avisos
    /\ aliases_aux' = FreshLocals.aliases_aux
    /\ itens_faltando' = FreshLocals.itens_faltando
    /\ itens_extras' = FreshLocals.itens_extras
    /\ UNCHANGED item_refs
    /\ UNCHANGED nonTwice

\* the second call reads the same rows in the same order
SecondCall ==
    /\ run_no = 2
    /\ CompNext
    /\ IF c_pc' = "done"
       THEN rows = first_rows
       ELSE /\ Len(rows) < Len(first_rows)
            /\ rows' = SubSeq(first_rows, 1, Len(rows) + 1)

TwiceNext ==
    \/ FirstCall
    \/ CallAgain
    \/ SecondCall

SpecTwice == TwiceInit /\ [][TwiceNext]_vars

----------------------------------------------------------------------------
(* _choose_best_prefix_candidate called on its own *)

MaxCandidates == 3

ExpectedCodes == {Code88316, Code883164, Code8831Spaced}

CandidateCodes == {Code8831, Code8831Spaced, Code88316, Code883164, Code883165, Code74209}

PrefixInit ==
    /\ BudgetIdle
    /\ ValidationIdle
    /\ SanitizeIdle
    /\ ConcurrentIdle
    /\ RequestIdle
    /\ NumberIdle
    /\ MathIdle
    /\ CompIdle
    /\ TwiceIdle
    /\ p_pc = "call"
    /\ p_expected \in ExpectedCodes
    /\ p_candidates \in SeqsUpTo(CandidateCodes, MaxCandidates)
    /\ p_res = [some |-> FALSE, v |-> <<>>]

\* composicoes_parser.py:214-235
ChooseBestCall ==
    /\ p_pc = "call"
    /\ p_res' = _choose_best_prefix_candidate(p_expected, p_candidates)
    /\ p_pc' = "ret"
    /\ UNCHANGED <<p_expected, p_candidates>>
    /\ UNCHANGED nonPrefix

PrefixNext == ChooseBestCall

SpecPrefix == PrefixInit /\ [][PrefixNext]_vars

----------------------------------------------------------------------------
(* parse_ptbr_number, character by character (core/money.py) *)

MaxChars == 4

\* the characters the drawn strings are made of
Chars == {"0", "1", "2", ".", ",", "-", " ", "R", "$", "\n"}

DigitValue ==
    ("0" :> 0) @@ ("1" :> 1) @@ ("2" :> 2) @@ ("3" :> 3) @@ ("4" :> 4)
    @@ ("5" :> 5) @@ ("6" :> 6) @@ ("7" :> 7) @@ ("8" :> 8) @@ ("9" :> 9)

\* \d
IsDigitChar(ch) == ch \in DOMAIN DigitValue

\* the characters str.strip() and float() take for whitespace
IsSpaceChar(ch) == ch \in {" ", "\n"}

RECURSIVE LStrip(_)
LStrip(s) == IF s # <<>> /\ IsSpaceChar(Head(s)) THEN LStrip(Tail(s)) ELSE s

RECURSIVE RStrip(_)
RStrip(s) ==
    IF s # <<>> /\ IsSpaceChar(s[Len(s)]) THEN RStrip(SubSeq(s, 1, Len(s) - 1)) ELSE s

\* str.strip()
Strip(s) == RStrip(LStrip(s))

RECURSIVE RemoveCurrency(_)
\* s.replace("R$", "")
RemoveCurrency(s) ==
    IF Len(s) < 2 THEN s
    ELSE IF s[1] = "R" /\ s[2] = "$" THEN RemoveCurrency(SubSeq(s, 3, Len(s)))
    ELSE <<s[1]>> \o RemoveCurrency(Tail(s))

\* s.replace(ch, "")
RemoveChar(s, ch) == SelectSeq(s, LAMBDA c : c # ch)

\* s.replace(a, b) for single characters
ReplaceChar(s, a, b) == [k \in DOMAIN s |-> IF s[k] = a THEN b ELSE s[k]]

RECURSIVE DigitRun(_, _)
\* how many digits stand at position k and after it
DigitRun(s, k) == IF k <= Len(s) /\ IsDigitChar(s[k]) THEN 1 + DigitRun(s, k + 1) ELSE 0

\* "$" of re: the end of the string, or just before a newline that ends it
AtDollar(s, k) == k = Len(s) + 1 \/ (k = Len(s) /\ s[k] = "\n")

\* (?:,\d+)?$ from position k
DecimalsThenEnd(s, k) ==
    \/ AtDollar(s, k)
    \/ /\ k <= Len(s)
       /\ s[k] = ","
       /\ DigitRun(s, k + 1) >= 1
       /\ AtDollar(s, k + 1 + DigitRun(s, k + 1))

\* -? : the position after the optional sign
AfterSign(s) == IF s # <<>> /\ s[1] = "-" THEN 2 ELSE 1

RECURSIVE AfterGroups(_, _)
\* (?:\.\d{3})* from position k: the position after the groups
AfterGroups(s, k) ==
    IF k <= Len(s) /\ s[k] = "." /\ DigitRun(s, k + 1) >= 3
    THEN AfterGroups(s, k + 4)
    ELSE k

\* -?\d{1,3}(?:\.\d{3})*(?:,\d+)?$
MatchesThousands(s) ==
    LET k == AfterSign(s)
        n == Min(DigitRun(s, k), 3)
    IN n >= 1 /\ DecimalsThenEnd(s, AfterGroups(s, k + n))

\* -?\d+(?:,\d+)?$
MatchesPlain(s) ==
    LET k == AfterSign(s)
        n == DigitRun(s, k)
    IN n >= 1 /\ DecimalsThenEnd(s, k + n)

\* _PTBR_RE.match(s)
_PTBR_RE(s) == MatchesThousands(s) \/ MatchesPlain(s)

RECURSIVE DigitsValue(_)
DigitsValue(d) ==
    IF d = <<>> THEN 0
    ELSE 10 * DigitsValue(SubSeq(d, 1, Len(d) - 1)) + DigitValue[d[Len(d)]]

RECURSIVE Reduce(_, _)
\* num / 10^exp without trailing zeros of the fraction
Reduce(num, exp) ==
    IF exp > 0 /\ num % 10 = 0 THEN Reduce(num \div 10, exp - 1) ELSE <<num, exp>>

\* float() accepts t: [sign] digits [. digits], whitespace around it ignored
IsFloatLiteral(t) ==
    LET u == Strip(t)
        k == AfterSign(u)
        n == DigitRun(u, k)
    IN /\ n >= 1
       /\ \/ k + n = Len(u) + 1
          \/ /\ k + n <= Len(u)
             /\ u[k + n] = "."
             /\ DigitRun(u, k + n + 1) >= 1
             /\ k + n + 1 + DigitRun(u, k + n + 1) = Len(u) + 1

\* float(t) as the decimal num / 10^exp (-0.0 and 0.0 are the same number)
FloatOf(t) ==
    LET u == Strip(t)
        neg == u[1] = "-"
        digits == SelectSeq(u, IsDigitChar)
        dots == {k \in DOMAIN u : u[k] = "."}
        exp == IF dots = {} THEN 0 ELSE Len(u) - (CHOOSE k \in dots : TRUE)
        mag == Reduce(DigitsValue(digits), exp)
    IN [num |-> IF neg THEN 0 - mag[1] ELSE mag[1], exp |-> mag[2]]

\* money.py:7-20
parse_ptbr_number(value) ==
    LET s == RemoveChar(RemoveCurrency(Strip(value)), " ")
        t == ReplaceChar(RemoveChar(s, "."), ",", ".")
    IN IF s = <<>> THEN None
       ELSE IF ~_PTBR_RE(s) THEN None
       ELSE IF IsFloatLiteral(t) THEN Some(FloatOf(t))
       ELSE None

\* longer strings of interest, beside every string of up to MaxChars characters
NumberExamples ==
    { <<"1", ".", "2", "3", "4", ",", "5", "6">>,
      <<"a", "b", "c">>,
      <<"R", "$", " ", "1", ".", "2", "3", "4", ",", "5", "6">>,
      <<"1", ".", "2", "3", "4", ".", "5", "6", "7", ",", "8">>,
      <<"-", "1", ".", "0", "0", "0">>,
      <<"1", "2", "3", "4", ".", "5", "6", "7">>,
      <<"1", "2", "3", "4", "5", ",", "5", "0">> }

NumberInit ==
    /\ BudgetIdle
    /\ ValidationIdle
    /\ SanitizeIdle
    /\ ConcurrentIdle
    /\ RequestIdle
    /\ MathIdle
    /\ CompIdle
    /\ PrefixIdle
    /\ TwiceIdle
    /\ n_pc = "call"
    /\ n_value \in SeqsUpTo(Chars, MaxChars) \cup NumberExamples
    /\ n_res = None

ParsePtbrNumberCall ==
    /\ n_pc = "call"
    /\ n_res' = parse_ptbr_number(n_value)
    /\ n_pc' = "ret"
    /\ UNCHANGED n_value
    /\ UNCHANGED nonNumber

NumberNext == ParsePtbrNumberCall

SpecNumber == NumberInit /\ [][NumberNext]_vars

----------------------------------------------------------------------------
(* sanitize_lines called on its own (core/sanitizer.py), on lines of         *)
(* characters                                                                 *)

MaxLineChars == 3

MaxSanLines == 2

\* the characters of a page line: a letter, a blank, and the one-character
\* markers of the configuration below
SanChars == {"a", " ", "S", "D", "X"}

\* config["sanitizer"]["strip_inline_from"]
SanStripInlineFrom == {<<"S">>}

\* the markers of _build_dynamic_markers(context)
SanDynamicMarkers == {<<"D">>}

\* config["sanitizer"]["drop_lines_if_contains"]
SanDropLinesIfContains == {<<"X">>}

RECURSIVE CollapseSpaces(_)
\* re.sub(r"\s{2,}", " ", s)
CollapseSpaces(s) ==
    IF s = <<>> THEN <<>>
    ELSE IF Len(s) >= 2 /\ IsSpaceChar(s[1]) /\ IsSpaceChar(s[2])
    THEN CollapseSpaces(<<" ">> \o SubSeq(s, 3, Len(s)))
    ELSE <<Head(s)>> \o CollapseSpaces(Tail(s))

\* sanitizer.py:7-8
_normalize_space(s) == CollapseSpaces(Strip(s))

\* sanitizer.py:11-15, as the set of the markers kept
_merge_markers(static, dynamic) == {m \in static \cup dynamic : m # <<>> /\ Strip(m) # <<>>}

\* the 0-based positions at which m occurs in s
Occurrences(s, m) ==
    {k \in 0..(Len(s) - Len(m)) : SubSeq(s, k + 1, k + Len(m)) = m}

\* s.find(m)
Find(s, m) ==
    IF Occurrences(s, m) = {} THEN -1
    ELSE CHOOSE k \in Occurrences(s, m) : \A j \in Occurrences(s, m) : k <= j

\* m in s
Contains(s, m) == Occurrences(s, m) # {}

\* sanitizer.py:29-41
CleanInline(text, strip_from, dynamic_markers) ==
    LET s == _normalize_space(text)
        markers == _merge_markers(strip_from, dynamic_markers)
        found == {Find(s, m) : m \in markers} \ {-1}
        cut_idx == CHOOSE k \in found : \A j \in found : k <= j
    IN IF s = <<>> \/ markers = {} THEN s
       ELSE IF found = {} THEN _normalize_space(s)
       ELSE _normalize_space(RStrip(SubSeq(s, 1, cut_idx)))

RECURSIVE sanitize_lines(_, _, _, _)
\* sanitizer.py:44-61
sanitize_lines(ls, drop_lines_if_contains, strip_from, dynamic_markers) ==
    IF ls = <<>> THEN <<>>
    ELSE
    LET s0 == _normalize_space(Head(ls))
        s == CleanInline(s0, strip_from, dynamic_markers)
        rest == sanitize_lines(Tail(ls), drop_lines_if_contains, strip_from, dynamic_markers)
    IN IF s0 = <<>> THEN rest
       ELSE IF s = <<>> THEN rest
       ELSE IF \E m \in drop_lines_if_contains : m # <<>> /\ Contains(s, m) THEN rest
       ELSE <<s>> \o rest

SanitizeInit ==
    /\ BudgetIdle
    /\ ValidationIdle
    /\ ConcurrentIdle
    /\ RequestIdle
    /\ NumberIdle
    /\ MathIdle
    /\ CompIdle
    /\ PrefixIdle
    /\ TwiceIdle
    /\ s_pc = "call"
    /\ s_lines \in SeqsUpTo(SeqsUpTo(SanChars, MaxLineChars), MaxSanLines)
    /\ s_out = <<>>

SanitizeLinesCall ==
    /\ s_pc = "call"
    /\ s_out' = sanitize_lines(s_lines, SanDropLinesIfContains, SanStripInlineFrom,
                               SanDynamicMarkers)
    /\ s_pc' = "ret"
    /\ UNCHANGED s_lines
    /\ UNCHANGED nonSanitize

SanitizeNext == SanitizeLinesCall

SpecSanitize == SanitizeInit /\ [][SanitizeNext]_vars

----------------------------------------------------------------------------
(* One request: parse_endpoint, parse_document, parse_sinapi (main.py,       *)
(* bases/base_loader.py, bases/sinapi/parser.py:57-162).  The two passes are *)
(* taken by what they hand back: the pages they read and the errors they     *)
(* record.                                                                   *)

MaxPages == 2

\* page numbers a caller may send, 0 and one past the last page included
PageNumbers == 0..(MaxPages + 1)

\* the errors _parse_orcamento_sintetico can hand back for the pages it reads:
\* none, parser.py:263, parser.py:362, parser.py:619
OrcamentoErros ==
    { <<>>, <<"nenhuma_linha">>, <<"item_falhou">>, <<"grupo_divergente">> }

Forms ==
    [n_pages : 1..MaxPages,
     opens : BOOLEAN,
     base_known : BOOLEAN,
     strict : BOOLEAN,
     page_indexing : {"1-based", "0-based"},
     orcamento_inicio : PageNumbers,
     orcamento_fim : PageNumbers,
     composicoes_inicio : PageNumbers,
     composicoes_fim : PageNumbers,
     found_erros : OrcamentoErros]

RequestInit ==
    /\ BudgetIdle
    /\ ValidationIdle
    /\ SanitizeIdle
    /\ ConcurrentIdle
    /\ MathIdle
    /\ CompIdle
    /\ PrefixIdle
    /\ TwiceIdle
    /\ NumberIdle
    /\ q_pc = "received"
    /\ q_form \in Forms
    /\ q_ranges = <<>>
    /\ q_orc_pages = <<>>
    /\ q_comp_pages = <<>>
    /\ q_avisos = <<>>
    /\ q_erros = <<>>
    /\ q_status = 0

Aviso(k, pages) == [k |-> k, pages |-> pages]

\* an exception nobody catches ends the request with status 500
Uncaught ==
    /\ q_status' = 500
    /\ q_pc' = "responded"

\* main.py:35-49
ParseEndpoint ==
    /\ q_pc = "received"
    /\ IF ~q_form.base_known
       THEN /\ q_status' = 400
            /\ q_pc' = "responded"
            /\ UNCHANGED q_ranges
       ELSE /\ q_ranges' =
                 [orcamento |-> <<q_form.orcamento_inicio, q_form.orcamento_fim>>,
                  composicoes |->
                      IF /\ q_form.composicoes_inicio >= 1
                         /\ q_form.composicoes_fim >= q_form.composicoes_inicio
                      THEN <<q_form.composicoes_inicio, q_form.composicoes_fim>>
                      ELSE <<0, 0>>]
            /\ q_pc' = "routed"
            /\ UNCHANGED q_status
    /\ UNCHANGED <<q_form, q_orc_pages, q_comp_pages, q_avisos, q_erros>>
    /\ UNCHANGED nonRequest

\* parser.py:75-85 with extract_pages_text, pdf_text.py:6-18
OrcamentoPass ==
    /\ q_pc = "routed"
    /\ LET o_ini == q_ranges.orcamento[1]
           o_fim == q_ranges.orcamento[2]
       IN IF o_ini # 0 /\ o_fim # 0 /\ o_ini >= 1 /\ o_fim >= o_ini
          THEN IF o_ini < 1 \/ o_fim < 1 \/ ~q_form.opens \/ o_fim > q_form.n_pages
               THEN /\ Uncaught
                    /\ UNCHANGED <<q_orc_pages, q_avisos, q_erros>>
               ELSE /\ q_orc_pages' = <<o_ini, o_fim>>
                    /\ q_erros' = q_erros \o q_form.found_erros
                    /\ q_pc' = "orcamento"
                    /\ UNCHANGED <<q_avisos, q_status>>
          ELSE /\ q_avisos' = Append(q_avisos, Aviso("orcamento_nao_processado", <<>>))
               /\ q_pc' = "orcamento"
               /\ UNCHANGED <<q_orc_pages, q_erros, q_status>>
    /\ UNCHANGED <<q_form, q_ranges, q_comp_pages>>
    /\ UNCHANGED nonRequest

\* to_pdf_index, composicoes_parser.py:82-85
to_pdf_index(page_num, page_indexing) ==
    IF page_indexing = "1-based" THEN page_num - 1 ELSE page_num

\* composicoes_parser.py:269-285: the 0-based <<start_idx, end_idx>> read
PageWindow(start_1based, end_1based, page_indexing, n_pages) ==
    LET suspect == page_indexing = "1-based" /\ (start_1based <= 0 \/ end_1based <= 0)
        start0 == IF suspect THEN start_1based ELSE to_pdf_index(start_1based, page_indexing)
        end0 == IF suspect THEN end_1based ELSE to_pdf_index(end_1based, page_indexing)
        start_idx == Max(0, Min(start0, n_pages - 1))
        end_idx == Max(0, Min(end0, n_pages - 1))
    IN [suspect |-> suspect,
        idx |-> IF end_idx < start_idx THEN <<end_idx, start_idx>> ELSE <<start_idx, end_idx>>]

\* parser.py:121-148 with parse_composicoes_sinapi, composicoes_parser.py:257-285,
\* 478-481
ComposicoesPass ==
    /\ q_pc = "orcamento"
    /\ LET c_ini == q_ranges.composicoes[1]
           c_fim == q_ranges.composicoes[2]
           w == PageWindow(c_ini, c_fim, q_form.page_indexing, q_form.n_pages)
           pages == <<w.idx[1] + 1, w.idx[2] + 1>>
       IN IF ~(c_ini # 0 /\ c_fim # 0 /\ c_ini >= 1 /\ c_fim >= c_ini)
          THEN /\ q_avisos' = Append(q_avisos, Aviso("composicoes_nao_processadas", <<>>))
               /\ UNCHANGED <<q_comp_pages, q_erros>>
          ELSE IF ~q_form.opens
          THEN /\ q_erros' = Append(q_erros, "falha_ao_abrir_pdf")
               /\ q_avisos' = Append(q_avisos, Aviso("composicoes_processadas", <<c_ini, c_fim>>))
               /\ UNCHANGED q_comp_pages
          ELSE /\ q_comp_pages' = pages
               /\ q_avisos' = q_avisos
                      \o (IF w.suspect THEN <<Aviso("range_suspeito", <<c_ini, c_fim>>)>>
                          ELSE <<>>)
                      \o <<Aviso("[composicoes]_processadas", pages),
                           Aviso("composicoes_processadas", <<c_ini, c_fim>>)>>
               /\ UNCHANGED q_erros
    /\ q_pc' = "parsed"
    /\ UNCHANGED <<q_form, q_ranges, q_orc_pages, q_status>>
    /\ UNCHANGED nonRequest

\* main.py:59-72
Respond ==
    /\ q_pc = "parsed"
    /\ q_status' = IF q_form.strict /\ q_erros # <<>> THEN 422 ELSE 200
    /\ q_pc' = "responded"
    /\ UNCHANGED <<q_form, q_ranges, q_orc_pages, q_comp_pages, q_avisos, q_erros>>
    /\ UNCHANGED nonRequest

RequestNext ==
    \/ ParseEndpoint
    \/ OrcamentoPass
    \/ ComposicoesPass
    \/ Respond

SpecRequest == RequestInit /\ [][RequestNext]_vars

----------------------------------------------------------------------------
(* Two requests with their steps interleaved.  Every name the two passes     *)
(* write is a local of the call (parser.py:258-270, composicoes_parser.py:   *)
(* 257-259, 290-325, 460, 486-487); the modules hold compiled patterns and   *)
(* constant tuples only.  The locals of the request that is not running are  *)
(* kept in k_parked.                                                         *)

MaxEach == 3

\* the locals of the running request
FrameNow ==
    [pc |-> pc, raw_lines |-> raw_lines, lines |-> lines, i |-> i,
     root_filhos |-> root_filhos, nodes |-> nodes, stack |-> stack,
     itens_plano |-> itens_plano, last_item_node |-> last_item_node,
     buf_item |-> buf_item, avisos |-> avisos, erros |-> erros,
     divergencias |-> divergencias, calls |-> calls, c_pc |-> c_pc,
     item_refs |-> item_refs, rows |-> rows,
     current_item |-> current_item, current_bloco |-> current_bloco,
     principais |-> principais, auxiliares_globais |-> auxiliares_globais,
     recovered_codes |-> recovered_codes, comp_avisos |-> comp_avisos,
     aliases_aux |-> aliases_aux, itens_faltando |-> itens_faltando,
     itens_extras |-> itens_extras]

InitFrom(f) ==
    /\ pc = f.pc
    /\ raw_lines = f.raw_lines
    /\ lines = f.lines
    /\ i = f.i
    /\ root_filhos = f.root_filhos
    /\ nodes = f.nodes
    /\ stack = f.stack
    /\ itens_plano = f.itens_plano
    /\ last_item_node = f.last_item_node
    /\ buf_item = f.buf_item
    /\ avisos = f.avisos
    /\ erros = f.erros
    /\ divergencias = f.divergencias
    /\ calls = f.calls
    /\ c_pc = f.c_pc
    /\ item_refs = f.item_refs
    /\ rows = f.rows
    /\ current_item = f.current_item
    /\ current_bloco = f.current_bloco
    /\ principais = f.principais
    /\ auxiliares_globais = f.auxiliares_globais
    /\ recovered_codes = f.recovered_codes
    /\ comp_avisos = f.comp_avisos
    /\ aliases_aux = f.aliases_aux
    /\ itens_faltando = f.itens_faltando
    /\ itens_extras = f.itens_extras

Load(f) ==
    /\ pc' = f.pc
    /\ raw_lines' = f.raw_lines
    /\ lines' = f.lines
    /\ i' = f.i
    /\ root_filhos' = f.root_filhos
    /\ nodes' = f.nodes
    /\ stack' = f.stack
    /\ itens_plano' = f.itens_plano
    /\ last_item_node' = f.last_item_node
    /\ buf_item' = f.buf_item
    /\ avisos' = f.avisos
    /\ erros' = f.erros
    /\ divergencias' = f.divergencias
    /\ calls' = f.calls
    /\ c_pc' = f.c_pc
    /\ item_refs' = f.item_refs
    /\ rows' = f.rows
    /\ current_item' = f.current_item
    /\ current_bloco' = f.current_bloco
    /\ principais' = f.principais
    /\ auxiliares_globais' = f.auxiliares_globais
    /\ recovered_codes' = f.recovered_codes
    /\ comp_avisos' = f.comp_avisos
    /\ aliases_aux' = f.aliases_aux
    /\ itens_faltando' = f.itens_faltando
    /\ itens_extras' = f.itens_extras

OrcamentoInput(ls) == [kind |-> "orcamento", raw_lines |-> ls, item_refs |-> <<>>, rows |-> <<>>]

ComposicoesInput(refs, rs) ==
    [kind |-> "composicoes", raw_lines |-> <<>>, item_refs |-> refs, rows |-> rs]

\* the locals of a call that has just been entered
NewFrame(input) ==
    [pc |-> IF input.kind = "orcamento" THEN "start" ELSE "off",
     raw_lines |-> input.raw_lines,
     lines |-> <<>>, i |-> 0, root_filhos |-> <<>>, nodes |-> <<>>,
     stack |-> << <<0, 0>> >>, itens_plano |-> <<>>, last_item_node |-> 0,
     buf_item |-> <<>>, avisos |-> <<>>, erros |-> <<>>, divergencias |-> <<>>,
     calls |-> <<>>,
     c_pc |-> IF input.kind = "composicoes" THEN "rows" ELSE "off",
     item_refs |-> input.item_refs,
     rows |-> <<>>, current_item |-> "", current_bloco |-> <<>>, principais |-> <<>>,
     auxiliares_globais |-> <<>>, recovered_codes |-> <<>>, comp_avisos |-> <<>>,
     aliases_aux |-> <<>>, itens_faltando |-> <<>>, itens_extras |-> <<>>]

\* what request A may be asked to parse
InputsA ==
    {OrcamentoInput(ls) : ls \in SeqsUpTo({G1, IOK, IBAD, IOPEN, TAIL}, MaxEach)}
    \cup
    {ComposicoesInput(refs, rs) :
        refs \in {<<>>, <<Ref("1.1", Code88316, "SINAPI")>>},
        rs \in SeqsUpTo({Row("header", "1.1", <<>>, "", "", None),
                         Row("composicao", "", Code88316, "", "SINAPI", Some(1000)),
                         Row("composicao", "", Code883164, "", "SINAPI", Some(1200)),
                         Row("composicao_auxiliar", "", Code883164, "", "SINAPI", Some(1200))},
                        MaxEach)}

\* what request B may be asked to parse
InputsB ==
    { OrcamentoInput(<<G1, IOK>>),
      OrcamentoInput(<<G1, IBAD>>),
      ComposicoesInput(<<>>, <<Row("composicao", "", Code74209, "", "Próprio", Some(500))>>),
      ComposicoesInput(<<Ref("1.1", Code883164, "SINAPI")>>,
                       <<Row("header", "1.1", <<>>, "", "", None),
                         Row("composicao", "", Code883164, "", "SINAPI", Some(1200))>>) }

\* the tree, the compositions and the report a request has produced
RequestOutput(f) ==
    [root_filhos |-> f.root_filhos, nodes |-> f.nodes, itens_plano |-> f.itens_plano,
     avisos |-> f.avisos, erros |-> f.erros, divergencias |-> f.divergencias,
     principais |-> f.principais, auxiliares_globais |-> f.auxiliares_globais,
     aliases_aux |-> f.aliases_aux, comp_avisos |-> f.comp_avisos,
     itens_faltando |-> f.itens_faltando, itens_extras |-> f.itens_extras]

HasReturned(f) == f.pc = "done" \/ f.c_pc = "done"

\* a request whose current_item is one name shared by all requests
ResumedWithSharedItem(f) == [f EXCEPT !.current_item = current_item]

\* a request is resumed with its own locals
Resumed(f) == f

ConcurrentInit ==
    /\ ValidationIdle
    /\ SanitizeIdle
    /\ MathIdle
    /\ PrefixIdle
    /\ TwiceIdle
    /\ NumberIdle
    /\ RequestIdle
    /\ k_pc = "alone"
    /\ k_input \in InputsA
    /\ k_other = <<>>
    /\ k_alone = <<>>
    /\ k_parked = <<>>
    /\ k_running = "A"
    /\ InitFrom(NewFrame(k_input))

\* the rows the running request reads are those of its document
ReadsItsRows(input) ==
    IF c_pc' = "done"
    THEN rows = input.rows
    ELSE /\ Len(rows) < Len(input.rows)
         /\ rows' = SubSeq(input.rows, 1, Len(rows) + 1)

\* the running request takes its next step
RequestStep ==
    /\ k_pc \in {"alone", "both"}
    /\ \/ BudgetNext
       \/ /\ CompNext
          /\ ReadsItsRows(IF k_running = "A" THEN k_input ELSE k_other)

\* request A has run alone; it is received again, together with request B
BothArrive ==
    /\ k_pc = "alone"
    /\ HasReturned(FrameNow)
    /\ k_alone' = RequestOutput(FrameNow)
    /\ k_other' \in InputsB
    /\ k_parked' = NewFrame(k_other')
    /\ Load(NewFrame(k_input))
    /\ k_pc' = "both"
    /\ UNCHANGED <<k_input, k_running>>
    /\ UNCHANGED nonConcurrent

\* the running request is suspended and the other one resumed
Switch ==
    /\ k_pc = "both"
    /\ k_parked' = FrameNow
    /\ Load(Resumed(k_parked))
    /\ k_running' = IF k_running = "A" THEN "B" ELSE "A"
    /\ UNCHANGED <<k_pc, k_input, k_other, k_alone>>
    /\ UNCHANGED nonConcurrent

ConcurrentNext ==
    \/ RequestStep
    \/ BothArrive
    \/ Switch

SpecConcurrent == ConcurrentInit /\ [][ConcurrentNext]_vars

----------------------------------------------------------------------------
(* Reading the tree *)

NodeIds == 1..Len(nodes)

\* filhos of node id, id 0 being the root
Children(id) == IF id = 0 THEN root_filhos ELSE nodes[id].filhos

ParentOf(id) == CHOOSE p \in 0..Len(nodes) : id \in Range(Children(p))

RECURSIVE Depth(_)
Depth(id) == IF id = 0 THEN 0 ELSE 1 + Depth(ParentOf(id))

NodeLevel(id) == IF id = 0 THEN 0 ELSE Level(nodes[id].item)

RECURSIVE ConsecutiveLevels(_)
\* every edge from the root down to id adds exactly one level
ConsecutiveLevels(id) ==
    \/ id = 0
    \/ /\ NodeLevel(id) = NodeLevel(ParentOf(id)) + 1
       /\ ConsecutiveLevels(ParentOf(id))

----------------------------------------------------------------------------
(* C1 *)

\* C1 as stated: every node of the tree sits at depth dots + 1
C1_DepthEqualsDotsPlusOne ==
    \A id \in NodeIds : Depth(id) = NodeLevel(id)

\* C1 (amended): every node of the tree sits at a depth of at most dots + 1, and
\* at exactly dots + 1 when, and only when, every edge from the root down to it
\* adds exactly one level (no ancestor number is missing from the lines)
C1_DepthAtMostDotsPlusOne ==
    \A id \in NodeIds :
        /\ Depth(id) >= 1
        /\ Depth(id) <= NodeLevel(id)
        /\ Depth(id) = NodeLevel(id) <=> ConsecutiveLevels(id)

\* a finished tree with a node of three levels at depth 3 and a node below its level
C1_Witness ==
    /\ pc = "done"
    /\ \E id \in NodeIds : NodeLevel(id) = 3 /\ Depth(id) = 3
    /\ \E id \in NodeIds : Depth(id) < NodeLevel(id)

----------------------------------------------------------------------------
(* C2 *)

StackInvariant ==
    /\ stack # <<>>
    /\ stack[1] = <<0, 0>>
    /\ \A k \in 1..(Len(stack) - 1) : stack[k][1] < stack[k + 1][1]
    /\ \A p \in 0..Len(nodes) :
           \A c \in Range(Children(p)) : NodeLevel(p) < NodeLevel(c)

\* the step that pushes a node: the entries above the topmost entry of smaller level
\* are popped, and the node becomes the last child of that entry's node
PushStep ==
    Len(nodes') = Len(nodes) + 1 =>
        LET new == Len(nodes')
            level == Level(nodes'[new].item)
            top == CHOOSE k \in 1..Len(stack) :
                       /\ stack[k][1] < level
                       /\ \A j \in (k + 1)..Len(stack) : stack[j][1] >= level
            parent == stack[top][2]
        IN /\ stack' = Append(SubSeq(stack, 1, top), <<level, new>>)
           /\ IF parent = 0
              THEN /\ root_filhos' = Append(root_filhos, new)
                   /\ \A q \in NodeIds : nodes'[q].filhos = nodes[q].filhos
              ELSE /\ root_filhos' = root_filhos
                   /\ nodes'[parent].filhos = Append(nodes[parent].filhos, new)
                   /\ \A q \in NodeIds \ {parent} : nodes'[q].filhos = nodes[q].filhos

\* C2: the stack is strictly increasing in level from the root entry that is never
\* popped, every edge of the tree goes from a smaller to a larger level, and each
\* push attaches the node as last child of the topmost stack entry of smaller level
C2_StackStrictlyIncreasing ==
    [][StackInvariant' /\ PushStep]_vars

\* a push has popped an entry: the last node hangs from a node that is neither the
\* root nor the node pushed just before it
C2_Witness ==
    /\ Len(nodes) >= 3
    /\ ParentOf(Len(nodes)) \notin {0, Len(nodes) - 1}
    /\ Len(stack) = 3

----------------------------------------------------------------------------
(* C3 *)

CallIds == 1..Len(calls)

HasItemError(k) ==
    \E e \in Range(erros) : e.k = "item" /\ e.call = k /\ e.item = calls[k].item0

HasItemDivergence(k) ==
    \E d \in Range(divergencias) : d.tipo = "item" /\ d.call = k

\* C3: a buffered item whose text parses as an item row and fails its arithmetic
\* validation is still pushed into the tree, and unless a borrowed line makes it
\* validate an error naming it is recorded, whatever lines follow it
C3_FailedItemStillPushed ==
    \A k \in CallIds :
        calls[k].first = "fail" =>
            /\ calls[k].some
            /\ calls[k].node \in NodeIds
            /\ ~calls[k].valid => HasItemError(k)

----------------------------------------------------------------------------
(* C4 *)

\* the line has the form <item> <code> <SINAPI|Próprio> <text> <und> <n1> <n2> <n3> <n4>
IsFullItemRow(l) == Len(l) >= 9 /\ RE_ITEM_START(l) /\ RE_ITEM_TAIL(l)

\* the call that the item-start branch makes for a line that is a full item row
IsFullItemRowCall(k) == Len(calls[k].buffer) = 1 /\ IsFullItemRow(calls[k].buffer[1])

\* what C4 says of such a call: the item is emitted from that line alone
FinalizedOnItsLine(k) ==
    LET c == calls[k]
        l == c.buffer[1]
        n == Len(l)
        pos == Cardinality({j \in 1..k : calls[j].some})
    IN /\ c.some
       /\ c.used = 0
       /\ c.node \in NodeIds
       /\ nodes[c.node].tipo = "item"
       /\ nodes[c.node].item = l[1]
       /\ nodes[c.node].codigo = l[2]
       /\ nodes[c.node].quant = l[n - 3]
       /\ nodes[c.node].custo_unitario_sem_bdi = l[n - 2]
       /\ nodes[c.node].custo_unitario_com_bdi = l[n - 1]
       /\ nodes[c.node].custo_parcial = l[n]
       /\ Depth(c.node) >= 1
       /\ pos <= Len(itens_plano)
       /\ itens_plano[pos] = l[1]

NoItemRecord(k) == ~HasItemDivergence(k) /\ ~\E e \in Range(erros) : e.call = k

\* n1 * n3 = n4, in cents
RowMathExact(l) ==
    NumVal[l[Len(l) - 3]] * NumVal[l[Len(l) - 1]] = 100 * NumVal[l[Len(l)]]

\* the row passes its arithmetic validation on its own line
ValidOnItsLine(k) == calls[k].first = "ok"

\* C4 as stated: every full item row is emitted from its own line, and when
\* n1 * n3 = n4 nothing is recorded against it
C4_ItemRowFinalizedOnItsLine ==
    \A k \in CallIds :
        IsFullItemRowCall(k) =>
            /\ FinalizedOnItsLine(k)
            /\ RowMathExact(calls[k].buffer[1]) => NoItemRecord(k)

\* the line after the row cannot be borrowed: there is none, or it begins a row
NothingToBorrow(k) ==
    calls[k].lookahead = <<>> \/ LooksLikeNewRow(calls[k].lookahead[1])

\* C4 (amended): a full item row is emitted from its own line whenever it
\* passes arithmetic validation on that line or the next line begins a new row
\* or the input ends; when n1 * n3 = n4 it passes, and nothing is recorded
\* against a row that passes
C4_ValidItemRowFinalizedOnItsLine ==
    \A k \in CallIds :
        IsFullItemRowCall(k) =>
            /\ ValidOnItsLine(k) \/ NothingToBorrow(k) => FinalizedOnItsLine(k)
            /\ RowMathExact(calls[k].buffer[1]) => ValidOnItsLine(k)
            /\ ValidOnItsLine(k) => NoItemRecord(k)

\* a full item row with n1 * n3 = n4 has been emitted, a line that is not a
\* row follows it, and the builder has finished
C4_Witness ==
    /\ pc = "done"
    /\ \E k \in CallIds :
           /\ IsFullItemRowCall(k)
           /\ RowMathExact(calls[k].buffer[1])
           /\ calls[k].some
           /\ calls[k].lookahead # <<>>
           /\ ~LooksLikeNewRow(calls[k].lookahead[1])

----------------------------------------------------------------------------
(* C5 *)

Parses(tok) == tok \in DOMAIN NumVal

AllThreeParse ==
    Parses(m_item.quant) /\ Parses(m_item.custo_unitario_com_bdi) /\ Parses(m_item.custo_parcial)

\* |quantity * unitCost - partialCost| <= max(0.02, 0.0002 * |quantity * unitCost|),
\* on the decimal values of the three fields
WithinItemTolerance ==
    LET e == NumVal[m_item.quant] * NumVal[m_item.custo_unitario_com_bdi]
        d == e - 100 * NumVal[m_item.custo_parcial]
    IN (d <= 200 /\ -d <= 200) \/ (d <= e \div 5000 /\ -d <= e \div 5000)

CleanDescription == \A k \in DOMAIN m_item.especificacao : m_item.especificacao[k] # "RUA"

\* C5: on an item with clean description text, validation passes exactly when
\* the three fields parse and |q * u - p| <= max(itemAbs, itemRel * |q * u|), or
\* when one of the three does not parse
C5_PassesExactlyWithinTolerance ==
    (m_pc = "ret" /\ CleanDescription) =>
        (m_res.ok <=> (~AllThreeParse \/ WithinItemTolerance))

----------------------------------------------------------------------------
(* C6 *)

IsGroup(id) == nodes[id].tipo # "item"

HasNumericTotal(id) == nodes[id].custo_total \in DOMAIN NumVal

RECURSIVE SumOfChildren(_)
\* S: the partial costs of the items below a list of children, in cents
SumOfChildren(ids) ==
    IF ids = <<>> THEN 0
    ELSE (IF nodes[Head(ids)].tipo = "item"
          THEN NumVal[nodes[Head(ids)].custo_parcial]
          ELSE SumOfChildren(nodes[Head(ids)].filhos))
         + SumOfChildren(Tail(ids))

\* |S - T| <= max(0.05, 0.0001 * |T|)
WithinGroupTolerance(id) ==
    LET T == NumVal[nodes[id].custo_total]
        d == SumOfChildren(nodes[id].filhos) - T
    IN (d <= 5 /\ -d <= 5) \/ (d <= T \div 10000 /\ -d <= T \div 10000)

GroupDivergencesOf(id) ==
    Cardinality({j \in DOMAIN divergencias :
                    divergencias[j].tipo = "grupo" /\ divergencias[j].node = id})

GroupErrorsOf(id) ==
    Cardinality({j \in DOMAIN erros : erros[j].k = "grupo" /\ erros[j].node = id})

\* C6: once the tree has been validated, a group with a numeric declared total
\* has no group divergence and no error when its children's sum is within the
\* group tolerance, and exactly one of each when it is outside
C6_GroupTotalChecked ==
    pc = "done" =>
        \A id \in NodeIds :
            IsGroup(id) /\ HasNumericTotal(id) =>
                IF WithinGroupTolerance(id)
                THEN GroupDivergencesOf(id) = 0 /\ GroupErrorsOf(id) = 0
                ELSE GroupDivergencesOf(id) = 1 /\ GroupErrorsOf(id) = 1

----------------------------------------------------------------------------
(* C7 *)

RefKeyNorm(r) == _make_id_norm(r.ref_id.codigo, r.ref_id.banco)

KeyNorm(k) == _make_id_norm(k.codigo, k.banco)

DetectedKeys == Range(DictKeys(principais))

\* some detected principal has the normalized key of the reference
HasExactMatch(r) == \E p \in DetectedKeys : KeyNorm(p) = RefKeyNorm(r)

\* one code is a prefix of the other, at most `missing` characters apart, the
\* shorter of at least 5 characters, on the normalized codes
PrefixRelated(a, b, missing) ==
    LET x == _norm_code(a)
        y == _norm_code(b)
    IN /\ Len(x) >= 5 /\ Len(y) >= 5
       /\ Len(x) - Len(y) <= missing /\ Len(y) - Len(x) <= missing
       /\ \/ \A n \in 1..Len(x) : n <= Len(y) /\ x[n] = y[n]
          \/ \A n \in 1..Len(y) : n <= Len(x) /\ x[n] = y[n]

\* some detected principal of the same bank is prefix-matchable with the reference
HasPrefixMatch(r) ==
    \E p \in DetectedKeys :
        /\ _norm_bank(p.banco) = _norm_bank(r.ref_id.banco)
        /\ PrefixRelated(r.ref_id.codigo, p.codigo, 4)

\* missingItems holds an id with the normalized key of the reference
ListedMissing(r) == \E n \in DOMAIN itens_faltando : KeyNorm(itens_faltando[n]) = RefKeyNorm(r)

\* the reference is the last one of item_refs with its normalized key
IsLastOfItsKey(n) ==
    \A m \in DOMAIN item_refs : m > n => RefKeyNorm(item_refs[m]) # RefKeyNorm(item_refs[n])

----------------------------------------------------------------------------
(* C8 *)

\* C8: whatever references were handed over, the empty list included, a detected
\* principal is listed in extraItems exactly when no reference has its normalized
\* key and no reference code of its bank is prefix-matchable with its code
C8_ExtraItems ==
    c_pc = "done" =>
        \A p \in DetectedKeys :
            p \in Range(itens_extras) <=>
                /\ \A r \in Range(item_refs) : RefKeyNorm(r) # KeyNorm(p)
                /\ \A r \in Range(item_refs) :
                       ~(/\ _norm_bank(r.ref_id.banco) = _norm_bank(p.banco)
                         /\ PrefixRelated(p.codigo, r.ref_id.codigo, 4))

----------------------------------------------------------------------------
(* C9 *)

AuxRowsSeen == {n \in DOMAIN rows : rows[n].t = "composicao_auxiliar"}

AuxKeyOf(n) == _make_id(rows[n].codigo, rows[n].banco)

\* the principals of the bank of the auxiliary whose code is within one
\* character of its code
AliasCandidates(n) ==
    {p \in DetectedKeys :
        /\ _norm_bank(p.banco) = _norm_bank(rows[n].banco)
        /\ PrefixRelated(p.codigo, rows[n].codigo, 1)}

\* C9: an auxiliary-composition line whose key is no principal key and that has
\* exactly one such principal is recorded as an alias of that principal's key
C9_AliasRecorded ==
    c_pc = "done" =>
        \A n \in AuxRowsSeen :
            (AuxKeyOf(n) \notin DetectedKeys /\ Cardinality(AliasCandidates(n)) = 1) =>
                /\ DictHas(aliases_aux, AuxKeyOf(n))
                /\ DictGet(aliases_aux, AuxKeyOf(n)) \in AliasCandidates(n)

----------------------------------------------------------------------------
(* C10 *)

\* the length of a code without its spaces
NormLen(c) == Cardinality({n \in DOMAIN c : c[n] # " "})

LenDiff(k) ==
    IF NormLen(p_expected) >= NormLen(p_candidates[k])
    THEN NormLen(p_expected) - NormLen(p_candidates[k])
    ELSE NormLen(p_candidates[k]) - NormLen(p_expected)

Longest(k) ==
    IF NormLen(p_expected) >= NormLen(p_candidates[k])
    THEN NormLen(p_expected) ELSE NormLen(p_candidates[k])

\* entry k scores strictly better than entry j: smaller length difference,
\* then the longer of the two
StrictlyBetter(k, j) ==
    LenDiff(k) < LenDiff(j) \/ (LenDiff(k) = LenDiff(j) /\ Longest(k) > Longest(j))

BeatsAllOthers(k) == \A j \in DOMAIN p_candidates : j # k => StrictlyBetter(k, j)

\* two distinct entries share the best score
BestScoreShared ==
    \E k, j \in DOMAIN p_candidates :
        /\ k # j
        /\ LenDiff(k) = LenDiff(j) /\ Longest(k) = Longest(j)
        /\ \A m \in DOMAIN p_candidates : ~StrictlyBetter(m, k)

\* C10: the function returns the entry whose score is strictly better than that
\* of every other entry of the list, returns no match when two entries share
\* the best score or the list is empty, and never returns a value that is not
\* in the list
C10_BestPrefixCandidate ==
    p_pc = "ret" =>
        /\ p_res.some =>
               \E k \in DOMAIN p_candidates : p_candidates[k] = p_res.v /\ BeatsAllOthers(k)
        /\ (\E k \in DOMAIN p_candidates : BeatsAllOthers(k)) => p_res.some
        /\ (p_candidates = <<>> \/ BestScoreShared) => ~p_res.some

\* the function has returned a candidate from a list of three entries in which
\* another entry is repeated
C10_Witness ==
    /\ p_pc = "ret"
    /\ p_res.some
    /\ Len(p_candidates) = 3
    /\ \E k, j \in DOMAIN p_candidates : k # j /\ p_candidates[k] = p_candidates[j]

----------------------------------------------------------------------------
(* C11 *)

----------------------------------------------------------------------------
(* C12 *)

\* what is left of the string once the currency prefix and the spaces are
\* removed
Remaining == RemoveChar(RemoveCurrency(Strip(n_value)), " ")

\* r is, from its first to its last character: an optional minus sign, a
\* integer digits, g groups of a dot and three digits, then nothing (f = 0) or
\* a comma and f digits
HasShape(r, sign, a, g, f) ==
    /\ Len(r) = sign + a + 4 * g + (IF f > 0 THEN f + 1 ELSE 0)
    /\ \A k \in DOMAIN r :
           LET j == k - sign
           IN IF j = 0 THEN r[k] = "-"
              ELSE IF j <= a THEN IsDigitChar(r[k])
              ELSE IF j <= a + 4 * g
                   THEN IF (j - a) % 4 = 1 THEN r[k] = "." ELSE IsDigitChar(r[k])
              ELSE IF j = a + 4 * g + 1 THEN r[k] = ","
              ELSE IsDigitChar(r[k])

\* -?\d{1,3}(\.\d{3})*(,\d+)?
WholeThousandsShape(r) ==
    \E sign \in 0..1, a \in 1..3, g \in 0..Len(r), f \in 0..Len(r) : HasShape(r, sign, a, g, f)

\* -?\d+(,\d+)?
WholePlainShape(r) ==
    \E sign \in 0..1, a \in 1..Len(r), f \in 0..Len(r) : HasShape(r, sign, a, 0, f)

RECURSIVE Pow10(_)
Pow10(n) == IF n = 0 THEN 1 ELSE 10 * Pow10(n - 1)

\* the digits of r after its comma
DecimalDigits(r) ==
    LET commas == {k \in DOMAIN r : r[k] = ","}
    IN IF commas = {} THEN <<>> ELSE SubSeq(r, (CHOOSE k \in commas : TRUE) + 1, Len(r))

\* the digits of r before its comma, thousands dots left out
IntegerDigits(r) ==
    LET commas == {k \in DOMAIN r : r[k] = ","}
        upto == IF commas = {} THEN Len(r) ELSE (CHOOSE k \in commas : TRUE) - 1
    IN SelectSeq(SubSeq(r, 1, upto), IsDigitChar)

\* x is the number r writes: thousands dots removed, the comma read as the
\* decimal point
IsValueOf(x, r) ==
    LET f == Len(DecimalDigits(r))
        magnitude == DigitsValue(IntegerDigits(r)) * Pow10(f) + DigitsValue(DecimalDigits(r))
        signed == IF r[1] = "-" THEN 0 - magnitude ELSE magnitude
    IN x.exp <= f /\ x.num * Pow10(f - x.exp) = signed

\* C12: parse_ptbr_number returns the number exactly when the whole of what
\* remains after removing the currency prefix and the spaces has one of the two
\* number shapes, and returns None for every other string
C12_NumberExactlyForWholeShape ==
    n_pc = "ret" =>
        IF WholeThousandsShape(Remaining) \/ WholePlainShape(Remaining)
        THEN n_res.some /\ IsValueOf(n_res.v, Remaining)
        ELSE ~n_res.some

\* the same, for strings with no line break in them
C12_HoldsWithoutLineBreak ==
    (n_pc = "ret" /\ \A k \in DOMAIN n_value : n_value[k] # "\n") =>
        IF WholeThousandsShape(Remaining) \/ WholePlainShape(Remaining)
        THEN n_res.some /\ IsValueOf(n_res.v, Remaining)
        ELSE ~n_res.some

----------------------------------------------------------------------------
(* C13 *)

\* the 1-based range <<a, b>> clamped to the n pages of the document, and
\* swapped if inverted
CorrectedRange(a, b, n) ==
    LET ca == Max(1, Min(a, n))
        cb == Max(1, Min(b, n))
    IN <<Min(ca, cb), Max(ca, cb)>>

\* <<a, b>> names pages from 1 on, and reaches past the last page or is inverted
NeedsCorrection(a, b, n) == a >= 1 /\ b >= 1 /\ (a > n \/ b > n \/ a > b)

\* a request that the document, the base and the page numbering let through
PlainRequest ==
    /\ q_pc = "responded"
    /\ q_form.base_known
    /\ q_form.opens
    /\ q_form.page_indexing = "1-based"

AvisoKinds == {q_avisos[k].k : k \in DOMAIN q_avisos}

\* C13: a budget range or a composition range that reaches past the last page
\* or is inverted is clamped and swapped, the pass runs on the corrected range,
\* a warning is recorded and the request does not fail
C13_RangesClampedAndSwapped ==
    PlainRequest =>
        /\ NeedsCorrection(q_form.orcamento_inicio, q_form.orcamento_fim, q_form.n_pages) =>
               /\ q_status \in {200, 422}
               /\ q_orc_pages = CorrectedRange(q_form.orcamento_inicio, q_form.orcamento_fim,
                                               q_form.n_pages)
               /\ q_avisos # <<>>
        /\ NeedsCorrection(q_form.composicoes_inicio, q_form.composicoes_fim, q_form.n_pages) =>
               /\ q_status \in {200, 422}
               /\ q_comp_pages = CorrectedRange(q_form.composicoes_inicio,
                                                q_form.composicoes_fim, q_form.n_pages)
               /\ "[composicoes]_processadas" \in AvisoKinds

\* what does hold: a composition range in order that reaches past the last
\* page is clamped and read, with the pages read named in avisos, whenever the
\* budget pass has not ended the request
C13_CompositionRangeClamped ==
    (/\ PlainRequest
     /\ q_status \in {200, 422}
     /\ q_form.composicoes_inicio >= 1
     /\ q_form.composicoes_inicio <= q_form.composicoes_fim
     /\ q_form.composicoes_fim > q_form.n_pages)
    => /\ q_comp_pages = CorrectedRange(q_form.composicoes_inicio, q_form.composicoes_fim,
                                        q_form.n_pages)
       /\ \E k \in DOMAIN q_avisos :
              q_avisos[k] = Aviso("[composicoes]_processadas", q_comp_pages)

----------------------------------------------------------------------------
(* C14 *)

IsValidRange(r) == r[1] # 0 /\ r[2] # 0 /\ r[1] >= 1 /\ r[2] >= r[1]

\* a pass is asked to read the document
DocumentNeeded ==
    \/ IsValidRange(<<q_form.orcamento_inicio, q_form.orcamento_fim>>)
    \/ IsValidRange(<<q_form.composicoes_inicio, q_form.composicoes_fim>>)

\* the budget range lies within the document
OrcamentoRangeReadable ==
    /\ IsValidRange(<<q_form.orcamento_inicio, q_form.orcamento_fim>>)
    /\ q_form.orcamento_fim <= q_form.n_pages

ErroKinds == {q_erros[k] : k \in DOMAIN q_erros}

\* C14: every error condition is recorded in erros whatever strict is, the core
\* still returns its response, and the request is aborted with the validation
\* failure (422) exactly when strict is true and erros is not empty
C14_ErrorsRecordedStrictAborts ==
    (q_pc = "responded" /\ q_form.base_known) =>
        /\ (q_form.opens /\ OrcamentoRangeReadable) =>
               Range(q_form.found_erros) \subseteq ErroKinds
        /\ (~q_form.opens /\ DocumentNeeded) => "falha_ao_abrir_pdf" \in ErroKinds
        /\ q_status \in {200, 422}
        /\ q_status = 422 <=> (q_form.strict /\ q_erros # <<>>)

\* what does hold: once parse_sinapi has returned, the errors the passes found
\* are in erros whatever strict is, and the response is the validation failure
\* exactly when strict is true and erros is not empty
C14_AbortExactlyWhenStrict ==
    (q_pc = "responded" /\ q_status \in {200, 422}) =>
        /\ OrcamentoRangeReadable => Range(q_form.found_erros) \subseteq ErroKinds
        /\ (~q_form.opens /\ DocumentNeeded) => "falha_ao_abrir_pdf" \in ErroKinds
        /\ q_status = 422 <=> (q_form.strict /\ q_erros # <<>>)

----------------------------------------------------------------------------
(* C15 *)

\* the locals of request A, running or parked
FrameOfA == IF k_running = "A" THEN FrameNow ELSE k_parked

FrameOfB == IF k_running = "B" THEN FrameNow ELSE k_parked

----------------------------------------------------------------------------
(* C16 *)

\* the fields of a node, its list of children left out
DataFields(node) == [node EXCEPT !.filhos = <<>>]

\* the fields of a node, its children and its free text left out
FixedFields(node) == [node EXCEPT !.filhos = <<>>, !.especificacao = <<>>, !.descricao = <<>>]

\* a node is closed once a later node has been pushed
IsClosed(id) == id < Len(nodes)

\* C16: no step changes a field of a closed node, and the only fields a step
\* changes in the most recently pushed node are its free-text fields
C16_ClosedNodesFrozen ==
    [][\A id \in DOMAIN nodes :
           /\ IsClosed(id) => DataFields(nodes'[id]) = DataFields(nodes[id])
           /\ FixedFields(nodes'[id]) = FixedFields(nodes[id])]_vars

\* what does hold: the only field a step changes in a node already pushed is
\* the especificacao of the last pushed item, closed or not
C16_OnlyLastItemTextGrows ==
    [][\A id \in DOMAIN nodes :
           /\ FixedFields(nodes'[id]) = FixedFields(nodes[id])
           /\ nodes'[id].descricao = nodes[id].descricao
           /\ nodes'[id].especificacao # nodes[id].especificacao => id = last_item_node]_vars

----------------------------------------------------------------------------
(* C17: the references handed from the budget pass to the composition pass *)

\* c.isdigit() and c.startswith("0000") over code tokens: no token of
\* CodigoToks is such a code
IsInsumoCodigoTok(codigo) == codigo \in {"00000367", "00000370", "00001"}

\* parser.py:654-657 on the tokens of a budget line
IsProbablyInsumoCodigoTok(codigo, banco) ==
    /\ banco \in {"SINAPI", "Sinapi"}
    /\ IsInsumoCodigoTok(codigo)

\* walk(nodes) of _collect_item_refs: the references of the nodes `ids` and of
\* their descendants, in document order
RECURSIVE walk(_, _)
walk(ids, ns) ==
    IF ids = <<>> THEN <<>>
    ELSE LET n == ns[Head(ids)]
             own == IF /\ n.tipo = "item"
                       /\ n.item # "" /\ n.codigo # "" /\ n.fonte # ""
                       /\ n.codigo # "COMPOSICAO"
                       /\ ~IsProbablyInsumoCodigoTok(n.codigo, n.fonte)
                    THEN <<Ref(n.item, n.codigo, n.fonte)>>
                    ELSE <<>>
         IN own \o walk(n.filhos, ns) \o walk(Tail(ids), ns)

_collect_item_refs(itens_raiz, ns) == walk(itens_raiz, ns)

\* item_refs_list of parse_sinapi once the budget pass has returned: the
\* placeholder filter of parser.py:113 reads r.get("codigo"), a key no
\* reference has, and removes nothing
item_refs_list == _collect_item_refs(root_filhos, nodes)

\* the LineItems a reference can come from
SourcesOf(r) ==
    {id \in DOMAIN nodes : /\ nodes[id].tipo = "item"
                           /\ nodes[id].item = r.item
                           /\ _make_id(nodes[id].codigo, nodes[id].fonte) = r.ref_id}

\* C17: every reference handed over carries the item number, code and bank of
\* a LineItem of the tree and that item's unit costs without and with BDI
C17_RefsCarryUnitCosts ==
    pc = "done" =>
        \A n \in DOMAIN item_refs_list :
            LET r == item_refs_list[n]
            IN \E id \in SourcesOf(r) :
                   /\ {"sem_bdi", "com_bdi"} \subseteq DOMAIN r
                   /\ r.sem_bdi = nodes[id].custo_unitario_sem_bdi
                   /\ r.com_bdi = nodes[id].custo_unitario_com_bdi

\* what does hold: every reference has exactly the item number and the
\* code|bank identifier of a LineItem, and every LineItem with a code other
\* than the placeholder has one
C17_RefsCarryItemCodeBank ==
    pc = "done" =>
        /\ \A n \in DOMAIN item_refs_list :
               /\ DOMAIN item_refs_list[n] = {"item", "ref_id"}
               /\ SourcesOf(item_refs_list[n]) # {}
        /\ \A id \in DOMAIN nodes :
               (nodes[id].tipo = "item" /\ nodes[id].codigo # "COMPOSICAO")
                   => \E n \in DOMAIN item_refs_list : id \in SourcesOf(item_refs_list[n])

----------------------------------------------------------------------------
(* C18: lookahead lines borrowed by try_finalize_item *)

\* the candidate of round k of a recorded call, cur being the buffer and the
\* first k lookahead lines: "none" when nothing parses, "ok" or "fail" as
\* _validate_item_math says
RoundStatus(c, k) ==
    LET cur == c.buffer \o SubSeq(c.lookahead, 1, k)
        p1 == TryParseItemRow(Flatten(cur))
        p2 == IF p1.some THEN p1 ELSE TryParseComposicaoItemRow(c.buffer[1])
        v == ValidateItemMath(p2.node, tol_item_abs, inv_tol_item_rel,
                              fail_if_contaminated_text, strip_inline_from)
    IN IF ~p2.some THEN "none" ELSE IF v.ok THEN "ok" ELSE "fail"

\* the call a step makes, if it makes one
CallMade == calls'[Len(calls')]

\* lines of the main loop the step leaves behind besides the current one
SkippedBeyondCurrent == i' - i - (Len(CallMade.buffer) - Len(buf_item))

\* C18: a try_finalize_item call borrows at most 2 lookahead lines, each one
\* only after the candidate before it failed its arithmetic validation and
\* only if the line does not look like a new row; the main loop skips the
\* borrowed lines exactly when an item is emitted
C18_BorrowOnlyAfterFailedValidation ==
    [][Len(calls') > Len(calls) =>
           /\ CallMade.used <= 2
           /\ \A k \in 1..CallMade.used :
                  /\ RoundStatus(CallMade, k - 1) = "fail"
                  /\ ~LooksLikeNewRow(CallMade.lookahead[k])
           /\ SkippedBeyondCurrent = IF CallMade.some THEN CallMade.used ELSE 0]_vars

\* what does hold: the same with a line also borrowed when the rows so far do
\* not parse as an item at all
C18_BorrowAfterFailureOrNoParse ==
    [][Len(calls') > Len(calls) =>
           /\ CallMade.used <= 2
           /\ \A k \in 1..CallMade.used :
                  /\ RoundStatus(CallMade, k - 1) \in {"fail", "none"}
                  /\ ~LooksLikeNewRow(CallMade.lookahead[k])
           /\ SkippedBeyondCurrent = IF CallMade.some THEN CallMade.used ELSE 0]_vars

----------------------------------------------------------------------------
(* C19: a new row met while a buffer is open *)

\* the buffer is open and the current line looks like the start of a new row
NewRowMeetsBuffer == InLoop /\ buf_item # <<>> /\ LooksLikeNewRow(ln)

\* the last try_finalize_item call closed an open buffer at the current line:
\* an open buffer never ends in an item tail (parser.py:387-408 finalize it as
\* soon as it does), and the lookahead of that call starts at the current line
JustClosed ==
    /\ InLoop
    /\ buf_item = <<>>
    /\ calls # <<>>
    /\ LET c == calls[Len(calls)]
       IN /\ ~RE_ITEM_TAIL(Flatten(c.buffer))
          /\ c.lookahead # <<>>
          /\ c.lookahead = Slice(lines, i, i + 3)
          /\ LooksLikeNewRow(ln)

\* the branch of the main loop a line falls in when no buffer is open
LineClass(line) ==
    IF IsItemStartLine(line) THEN "item"
    ELSE IF RE_GROUP_WITH_TOTAL(line) THEN "group_with_total"
    ELSE IF RE_GROUP_NO_TOTAL(line) /\ IsProbableGroupHeading(SubSeq(line, 2, Len(line)))
    THEN "group_no_total"
    ELSE "other"

\* the branch a step of the main loop took on the current line, read from what
\* the step did
BranchTaken ==
    IF buf_item' = <<ln>> \/ (Len(calls') > Len(calls) /\ CallMade.buffer = <<ln>>)
    THEN "item"
    ELSE IF /\ Len(nodes') = Len(nodes) + 1
            /\ nodes'[Len(nodes')].tipo \in {"meta", "submeta"}
            /\ nodes'[Len(nodes')].item = ln[1]
    THEN IF nodes'[Len(nodes')].descricao = SubSeq(ln, 2, Len(ln))
         THEN "group_no_total" ELSE "group_with_total"
    ELSE IF /\ RE_GROUP_WITH_TOTAL(ln)
            /\ last_item_node # 0
            /\ nodes' = AppendToLastItem(ln)
    THEN "group_with_total"
    ELSE "other"

\* C19: a new row met with the buffer open closes the buffer (its item pushed
\* if it finalizes, otherwise nothing pushed) from the buffered lines alone,
\* leaves i on the current line, and the step after it takes the branch the
\* line has with no buffer open
C19_NewRowClosesBufferThenReprocessed ==
    [][/\ NewRowMeetsBuffer =>
              /\ buf_item' = <<>>
              /\ i' = i /\ lines' = lines /\ pc' = "loop"
              /\ Len(calls') = Len(calls) + 1
              /\ CallMade.buffer = buf_item /\ CallMade.used = 0
              /\ IF CallMade.some
                 THEN /\ Len(nodes') = Len(nodes) + 1
                      /\ nodes'[Len(nodes')].item = CallMade.item
                      /\ itens_plano' = Append(itens_plano, CallMade.item)
                 ELSE UNCHANGED <<root_filhos, nodes, stack, last_item_node, itens_plano>>
       /\ JustClosed =>
              /\ ~NewRowMeetsBuffer
              /\ i' > i
              /\ BranchTaken = LineClass(ln)]_vars

\* a buffer has just been closed by a new row, which is still the current line
C19_Witness == JustClosed

----------------------------------------------------------------------------
(* C20: lines of the form <item> <description> <total> with a false heading *)

\* the current line reaches the group-with-total branch and its description
\* does not pass _is_probable_group_heading
FalseHeadingWithTotal ==
    /\ InLoop
    /\ NotItemStart
    /\ RE_GROUP_WITH_TOTAL(ln)
    /\ ~IsProbableGroupHeading(SubSeq(ln, 2, Len(ln) - 1))

\* C20: a line <item> <description> <total> whose description looks like a
\* false heading never creates a Group node
C20_FalseHeadingNeverPushed ==
    [][FalseHeadingWithTotal => Len(nodes') = Len(nodes)]_vars

\* what does hold: such a line is pushed as a Group node exactly when it
\* cannot be taken as the continuation of the last item, and then with the
\* warning "Grupo suspeito incluído"; otherwise its text goes to that item
C20_FalseHeadingPushedWithWarning ==
    [][FalseHeadingWithTotal =>
           IF last_item_node # 0 /\ is_safe_continuation(ln, toxic_for_continuation)
           THEN /\ nodes' = AppendToLastItem(ln)
                /\ avisos' = avisos
           ELSE /\ Len(nodes') = Len(nodes) + 1
                /\ nodes'[Len(nodes')] = GroupNode(ln[1], SubSeq(ln, 2, Len(ln) - 1), Last(ln))
                /\ avisos' = Append(avisos, [k |-> "grupo_suspeito", item |-> ln[1]])]_vars

----------------------------------------------------------------------------
(* C21: group headings without a total *)

\* the current line is <item> <description> with no trailing number and a
\* plausible heading description
HeadingWithoutTotal ==
    /\ InLoop
    /\ ~IsItemStartLine(ln)
    /\ ~RE_GROUP_WITH_TOTAL(ln)
    /\ RE_GROUP_NO_TOTAL(ln)
    /\ IsProbableGroupHeading(SubSeq(ln, 2, Len(ln)))

\* the line after the current one is a bare number
NextIsBareNumber == i + 1 < Len(lines) /\ RE_ONLY_NUMBER(lines[i + 2])

\* the node pushed by the step
Pushed == nodes'[Len(nodes')]

\* C21: a heading without a total always pushes a Group node (once the open
\* buffer, if any, is closed); a bare number on the next line becomes its total
\* and is consumed with it; otherwise the total is the configured sentinel and
\* exactly one warning (allow_missing_group_total) or exactly one error is added
C21_HeadingWithoutTotalPushed ==
    [][HeadingWithoutTotal =>
           IF buf_item # <<>>
           THEN i' = i /\ buf_item' = <<>>
           ELSE /\ Len(nodes') = Len(nodes) + 1
                /\ Pushed.tipo \in {"meta", "submeta"}
                /\ Pushed.item = ln[1]
                /\ Pushed.descricao = SubSeq(ln, 2, Len(ln))
                /\ IF NextIsBareNumber
                   THEN /\ Pushed.custo_total = lines[i + 2][1]
                        /\ i' = i + 2
                        /\ avisos' = avisos /\ erros' = erros
                   ELSE /\ Pushed.custo_total = val.missing_group_total_value
                        /\ i' = i + 1
                        /\ IF val.allow_missing_group_total
                           THEN /\ Len(avisos') = Len(avisos) + 1
                                /\ avisos'[Len(avisos')].k = "grupo_sem_total"
                                /\ erros' = erros
                           ELSE /\ Len(erros') = Len(erros) + 1
                                /\ erros'[Len(erros')].k = "grupo_sem_total"
                                /\ avisos' = avisos]_vars

\* one heading has taken the number after it as its total, another one had
\* none and was recorded as an error
C21_Witness ==
    /\ \E id \in DOMAIN nodes :
           nodes[id].tipo = "submeta" /\ nodes[id].descricao = <<"PISOS">>
               /\ nodes[id].custo_total = "60,00"
    /\ \E id \in DOMAIN nodes :
           nodes[id].tipo = "submeta" /\ nodes[id].descricao = <<"PISOS">>
               /\ nodes[id].custo_total = val.missing_group_total_value
    /\ \E n \in DOMAIN erros : erros[n].k = "grupo_sem_total"

----------------------------------------------------------------------------
(* C22: what becomes of every line of the window *)

\* the step is done with one or more lines: it moves past the current line or
\* empties the buffer, and leaves nothing waiting in the buffer
DisposesOfLines ==
    /\ pc = "loop"
    /\ i' > i \/ buf_item # <<>>
    /\ buf_item' = <<>>

\* the step put something in the tree or reported something
IncorporatedOrReported ==
    \/ nodes' # nodes
    \/ Len(avisos') > Len(avisos)
    \/ Len(erros') > Len(erros)

\* the step called try_finalize_item and got no item back
FinalizeGaveNothing == Len(calls') > Len(calls) /\ ~CallMade.some

\* C22: every line of the window ends in a node of the tree or in a warning
\* or error; none is dropped silently, the lines of a buffer that fails to
\* finalize included
C22_NoLineDroppedSilently ==
    [][DisposesOfLines /\ pc' = "loop" => IncorporatedOrReported]_vars

\* what does hold: the same for every step in which try_finalize_item is not
\* called or returns an item
C22_LinesOutsideFailedBuffersAccounted ==
    [][DisposesOfLines /\ pc' = "loop" /\ ~FinalizeGaveNothing => IncorporatedOrReported]_vars

----------------------------------------------------------------------------
(* C23: groups whose total is absent *)

\* ct_raw is empty or the configured sentinel
HasAbsentTotal(id) ==
    /\ IsGroup(id)
    /\ nodes[id].custo_total = "" \/ nodes[id].custo_total = val.missing_group_total_value

\* a group with a numeric total has been compared with the sum of its children
CheckedAgainstTotal(id) ==
    IF WithinGroupTolerance(id)
    THEN GroupDivergencesOf(id) = 0 /\ GroupErrorsOf(id) = 0
    ELSE GroupDivergencesOf(id) = 1 /\ GroupErrorsOf(id) = 1

RECURSIVE UnderItem(_)
\* some ancestor of the node is a LineItem
UnderItem(id) ==
    LET p == ParentOf(id)
    IN p # 0 /\ (nodes[p].tipo = "item" \/ UnderItem(p))

\* what the claim says of one group with an absent total
AbsentTotalSkipped(id) ==
    /\ GroupDivergencesOf(id) = 0 /\ GroupErrorsOf(id) = 0
    /\ \A c \in Range(nodes[id].filhos) :
           IsGroup(c) /\ HasNumericTotal(c) => CheckedAgainstTotal(c)
    /\ LET p == ParentOf(id)
       IN (p # 0 /\ IsGroup(p) /\ HasNumericTotal(p)) => CheckedAgainstTotal(p)

\* C23: once the tree has been validated, a group whose total is empty or the
\* sentinel has no divergence and no error of its own, its child groups have
\* been checked against their totals and the group above it has been checked
\* with the sum that includes its children
C23_AbsentTotalSkippedChildrenChecked ==
    pc = "done" => \A id \in NodeIds : HasAbsentTotal(id) => AbsentTotalSkipped(id)

\* what does hold: the same for the groups that have no LineItem above them
C23_HoldsOutsideItems ==
    pc = "done" =>
        \A id \in NodeIds : (HasAbsentTotal(id) /\ ~UnderItem(id)) => AbsentTotalSkipped(id)

\* an absent-total group outside every LineItem, with a child group whose
\* total is outside the tolerance
C23_HoldsOutsideItemsReached ==
    /\ pc = "done"
    /\ \E id \in NodeIds :
           /\ HasAbsentTotal(id) /\ ~UnderItem(id)
           /\ \E c \in Range(nodes[id].filhos) :
                  IsGroup(c) /\ HasNumericTotal(c) /\ ~WithinGroupTolerance(c)

----------------------------------------------------------------------------
(* C24: the sum a group's total is compared with *)

RECURSIVE RecursiveSum(_)
\* the partial costs of the LineItems of `ids` (0 for one that does not parse)
\* plus, for each group of `ids`, the sum computed in the same way from its
\* children; in cents
RecursiveSum(ids) ==
    IF ids = <<>> THEN 0
    ELSE LET n == nodes[Head(ids)]
         IN (IF n.tipo = "item"
             THEN (IF n.custo_parcial \in DOMAIN NumVal THEN NumVal[n.custo_parcial] ELSE 0)
             ELSE RecursiveSum(n.filhos))
            + RecursiveSum(Tail(ids))

\* |S - T| > max(0.05, 0.0001 * |T|), in cents
OutsideGroupTolerance(S, T) ==
    LET d == S - T
    IN ~((d <= 5 /\ -d <= 5) \/ (d <= T \div 10000 /\ -d <= T \div 10000))

GroupDivergences(id) ==
    {j \in DOMAIN divergencias : divergencias[j].tipo = "grupo" /\ divergencias[j].node = id}

\* the groups the validator compares: numeric total, no LineItem above
IsCompared(id) == IsGroup(id) /\ HasNumericTotal(id) /\ ~UnderItem(id)

\* C24: the sum a group's declared total is compared with is the sum of the
\* partial costs of its LineItem children (0 for one that does not parse)
\* plus the recursively computed sum of each child group, not that child's
\* declared total
C24_ComparedWithRecursiveSum ==
    pc = "validated" =>
        \A id \in NodeIds :
            IsCompared(id) =>
                LET S == RecursiveSum(nodes[id].filhos)
                    T == NumVal[nodes[id].custo_total]
                IN /\ \A j \in GroupDivergences(id) : divergencias[j].soma_filhos = S
                   /\ GroupDivergences(id) # {}
                          <=> (val.report_all_group_checks \/ OutsideGroupTolerance(S, T))
                   /\ GroupErrorsOf(id) = (IF OutsideGroupTolerance(S, T) THEN 1 ELSE 0)

\* a compared group has a child group whose declared total is not its own sum
\* and, among its children, an item whose partial cost does not parse
C24_Witness ==
    /\ pc = "validated"
    /\ \E id \in NodeIds :
           /\ IsCompared(id)
           /\ GroupDivergences(id) # {}
           /\ \E c \in Range(nodes[id].filhos) :
                  /\ IsGroup(c) /\ HasNumericTotal(c)
                  /\ NumVal[nodes[c].custo_total] # RecursiveSum(nodes[c].filhos)
           /\ \E c \in Range(nodes[id].filhos) :
                  nodes[c].tipo = "item" /\ nodes[c].custo_parcial \notin DOMAIN NumVal

----------------------------------------------------------------------------
(* C25: rows met while a block is open *)

\* the row the step reads
RowRead == rows'[Len(rows')]

\* the entries of principais other than the one of key pid are left as they are
OtherBlocksUntouched(pid) ==
    /\ \A n \in DOMAIN principais :
           principais[n].key # pid =>
               DictHas(principais', principais[n].key)
                   /\ DictGet(principais', principais[n].key) = principais[n].value
    /\ \A n \in DOMAIN principais' :
           principais'[n].key # pid => DictHas(principais, principais'[n].key)

\* C25: while a block is open, an auxiliary-composition row is appended to the
\* auxiliaries of that block and an input row to its inputs, in row order, and
\* no stored block changes; a column-header row leaves the block open; an item
\* header row closes the open block, stores it in principais under its
\* code|bank and makes its item number the context
C25_RowsGoToTheOpenBlock ==
    [][(c_pc = "rows" /\ Len(rows') = Len(rows) + 1 /\ current_bloco # <<>>) =>
           LET open == current_bloco[1]
               pid == _make_id(open.principal.codigo, open.principal.banco)
           IN /\ RowRead.t = "composicao_auxiliar" =>
                     /\ current_bloco' =
                            <<[open EXCEPT !.composicoes_auxiliares =
                                               Append(@, Linha(Entry(RowRead)))]>>
                     /\ principais' = principais
              /\ RowRead.t = "insumo" =>
                     /\ current_bloco' =
                            <<[open EXCEPT !.insumos = Append(@, Linha(Entry(RowRead)))]>>
                     /\ principais' = principais
              /\ RowRead.t = "colheader" =>
                     /\ current_bloco' = current_bloco
                     /\ principais' = principais
                     /\ current_item' = current_item
              /\ RowRead.t = "header" =>
                     /\ current_bloco' = <<>>
                     /\ DictHas(principais', pid) /\ DictGet(principais', pid) = open
                     /\ OtherBlocksUntouched(pid)
                     /\ current_item' = RowRead.item]_vars

\* an open block has received an auxiliary row after a column-header row
C25_Witness ==
    /\ Len(rows) = 3
    /\ rows[1].t = "composicao" /\ rows[2].t = "colheader"
    /\ rows[3].t = "composicao_auxiliar"
    /\ current_bloco # <<>>
    /\ Len(current_bloco[1].composicoes_auxiliares) = 1

----------------------------------------------------------------------------
(* C26: auxiliary rows met with no block open *)

\* the step reads an auxiliary-composition row
ReadsAuxiliarRow ==
    c_pc = "rows" /\ Len(rows') = Len(rows) + 1 /\ RowRead.t = "composicao_auxiliar"

\* the row read is in auxiliares_globais under its raw code|bank
AuxiliarIndexed ==
    LET aux == Linha(Entry(RowRead))
        key == _make_id(aux.codigo, aux.banco)
    IN DictHas(auxiliares_globais', key) /\ DictGet(auxiliares_globais', key) = aux

\* C26: an auxiliary-composition row that arrives while no block is open is
\* recorded in auxiliares_globais under its raw code|bank key
C26_OrphanAuxiliarRecorded ==
    [][(ReadsAuxiliarRow /\ current_bloco = <<>>) => AuxiliarIndexed]_vars

\* what does hold: an auxiliary row is recorded when a block is open, and a
\* row met with no block open changes nothing
C26_AuxiliarOfOpenBlockRecorded ==
    [][ReadsAuxiliarRow =>
           IF current_bloco # <<>> THEN AuxiliarIndexed
           ELSE UNCHANGED <<current_bloco, principais, auxiliares_globais, comp_avisos>>]_vars

----------------------------------------------------------------------------
(* C27: blocks stored in principais *)

\* the step closes the open block: a composition row or an item header is
\* read, or the rows of the range are over
ClosesOpenBlock ==
    /\ c_pc = "rows"
    /\ current_bloco # <<>>
    /\ \/ c_pc' = "done"
       \/ Len(rows') = Len(rows) + 1 /\ RowRead.t \in {"composicao", "header"}

\* the key a block is stored under
BlockKey(bloco) == _make_id(bloco.principal.codigo, bloco.principal.banco)

\* the block the step closes is in principais with the lines attached to it
ClosedBlockStored ==
    /\ DictHas(principais', BlockKey(current_bloco[1]))
    /\ DictGet(principais', BlockKey(current_bloco[1])) = current_bloco[1]

\* C27: a block is stored under the raw code|bank of its principal, with its
\* auxiliary and input lines, when the next composition row or an item header
\* arrives or the range ends, and a stored block is never replaced, so that
\* every block opened is in principais at the end of the pass
C27_EveryBlockKept ==
    [][/\ ClosesOpenBlock => ClosedBlockStored
       /\ \A n \in DOMAIN principais :
              /\ DictHas(principais', principais[n].key)
              /\ DictGet(principais', principais[n].key) = principais[n].value]_vars

\* what does hold: a block is stored when it is closed, and a stored block
\* stays as it is until a block with the same code|bank is closed
C27_BlockKeptUntilSameKeyStored ==
    [][/\ ClosesOpenBlock => ClosedBlockStored
       /\ \A n \in DOMAIN principais :
              /\ DictHas(principais', principais[n].key)
              /\ DictGet(principais', principais[n].key) # principais[n].value
                     => ClosesOpenBlock /\ BlockKey(current_bloco[1]) = principais[n].key]_vars

----------------------------------------------------------------------------
(* C28: the item number of a new block *)

\* the step reads a composition row, which opens a block
OpensBlock ==
    /\ c_pc = "rows"
    /\ Len(rows') = Len(rows) + 1
    /\ RowRead.t = "composicao"

\* the positions of the header rows read after position n
HeadersAfter(n) == {m \in DOMAIN rows : m > n /\ rows[m].t = "header"}

\* the position of the last composition row read before the step, 0 when none
LastComposicao ==
    IF \E m \in DOMAIN rows : rows[m].t = "composicao"
    THEN CHOOSE m \in DOMAIN rows :
             /\ rows[m].t = "composicao"
             /\ \A k \in DOMAIN rows : rows[k].t = "composicao" => k <= m
    ELSE 0

\* the item number the new block gets from the header rows read after position
\* n, or from the expected references when there is none
ItemFrom(n) ==
    IF HeadersAfter(n) # {}
    THEN rows[CHOOSE m \in HeadersAfter(n) : \A k \in HeadersAfter(n) : k <= m].item
    ELSE IdToItem(item_refs, _make_id_norm(current_bloco'[1].principal.codigo,
                                           current_bloco'[1].principal.banco))

\* C28: a new block gets the item number of the header row that introduces it,
\* that is, of a header row read since the block before it was opened; when no
\* header row introduces it, it gets the item number of the expected reference
\* with the same normalized code and bank, or the empty item number; it never
\* gets the item number of a header row of an earlier block
C28_ItemOfIntroducingHeader ==
    [][OpensBlock => current_bloco'[1].item = ItemFrom(LastComposicao)]_vars

\* a new block gets the item number of the last header row read in the call,
\* whichever block that header introduced, and the item number of the expected
\* reference only when the call has read no header row at all
C28_ItemOfLastHeaderRead ==
    [][OpensBlock => current_bloco'[1].item = ItemFrom(0)]_vars

\* a header row is followed by two composition rows
C28_SecondBlockAfterOneHeader ==
    /\ Len(rows) = 3
    /\ rows[1].t = "header" /\ rows[2].t = "composicao" /\ rows[3].t = "composicao"
    /\ current_bloco # <<>>
    /\ current_bloco[1].item = rows[1].item

----------------------------------------------------------------------------
(* C29: a truncated code with one expected code to complete it *)

\* code is a proper prefix of full, with at most 4 characters missing and at
\* least 5 characters of its own
IsTruncationOf(code, full) ==
    LET cn == _norm_code(code)
        fn == _norm_code(full)
    IN /\ Len(cn) >= 5
       /\ Len(cn) < Len(fn)
       /\ Len(fn) - Len(cn) <= 4
       /\ StartsWith(fn, cn)

\* the references of the bank of the row whose code the code of the row truncates
CompletingRefs(row) ==
    SelectSeq(ExpectedByBank(item_refs, _norm_bank(Entry(row).banco)),
              LAMBDA r : IsTruncationOf(Entry(row).codigo, r.ref_id.codigo))

\* the distinct expected codes that complete the code of the row
CompletingCodes(row) == {r.ref_id.codigo : r \in Range(CompletingRefs(row))}

\* the block is opened under the full code and the recovery is among the warnings
RecoveredTo(row, full) ==
    /\ current_bloco'[1].principal.codigo = full
    /\ \E n \in DOMAIN comp_avisos' :
           /\ comp_avisos'[n].k = "recuperado"
           /\ comp_avisos'[n].rid = _make_id(Entry(row).codigo, Entry(row).banco)
           /\ comp_avisos'[n].to = _make_id(full, Entry(row).banco)

\* C29: a composition row whose code is a proper prefix, with at most 4
\* characters missing and a length of at least 5, of exactly one distinct
\* expected code of its normalized bank opens its block under that expected
\* code and the truncated-code-recovered warning is recorded, however many
\* budget items reference that expected code
C29_TruncatedCodeRecovered ==
    [][OpensBlock =>
          \A full \in CompletingCodes(RowRead) :
              CompletingCodes(RowRead) = {full} => RecoveredTo(RowRead, full)]_vars

\* the same when one budget item only references the expected code
C29_RecoveredWhenReferencedOnce ==
    [][OpensBlock =>
          \A full \in CompletingCodes(RowRead) :
              Len(CompletingRefs(RowRead)) = 1 => RecoveredTo(RowRead, full)]_vars

\* a block was opened under a code completed from a reference
C29_RecoveryReached ==
    /\ current_bloco # <<>>
    /\ \E n \in DOMAIN comp_avisos :
           /\ comp_avisos[n].k = "recuperado"
           /\ comp_avisos[n].to = _make_id(current_bloco[1].principal.codigo,
                                           current_bloco[1].principal.banco)

----------------------------------------------------------------------------
(* C30: the tie between several detected principals of an expected reference *)

\* the step is the reconciliation at the end of the pass
Reconciles == c_pc = "rows" /\ c_pc' = "done"

\* the unit cost without BDI, in cents, of the budget item a reference was
\* collected from, for a budget whose items 1.1 and 1.2 cost 10,00 and 12,00
\* and whose item 2 has no unit cost
CustoUnitarioSemBdi(item) ==
    CASE item = "1.1" -> Some(1000)
      [] item = "1.2" -> Some(1200)
      [] OTHER -> None

\* the reference an entry of expected_norm was written from: the last one of
\* its normalized code and bank
ReferenceOf(key) ==
    item_refs[CHOOSE n \in DOMAIN item_refs :
                  /\ _make_id_norm(item_refs[n].ref_id.codigo, item_refs[n].ref_id.banco) = key
                  /\ \A m \in DOMAIN item_refs :
                         _make_id_norm(item_refs[m].ref_id.codigo, item_refs[m].ref_id.banco) = key
                             => m <= n]

\* the detected principals of the bank of exp that prefix-match its code
PrefixCandidates(exp, pr) ==
    SelectSeq(pr, LAMBDA e : /\ _norm_bank(_split_id(e.key)[2]) = _norm_bank(exp.bank)
                             /\ _prefix_match(exp.code, _split_id(e.key)[1], 4, 5))

\* an expected reference without an exact match and with two or more
\* prefix-matching detected principals
IsTied(e, pr) ==
    /\ e.key \notin DetectedNormSet(pr)
    /\ Len(PrefixCandidates(e.value, pr)) >= 2

\* what the reconciliation reports for the expected reference e when best is
\* the candidate chosen for it
ReportedAs(e, best) ==
    IF best.some /\ best.v # <<>>
    THEN /\ \E n \in DOMAIN comp_avisos' :
                comp_avisos'[n] = [k |-> "match_truncamento", rid |-> e.value.rid,
                                   to |-> _make_id(best.v, e.value.bank)]
         /\ e.value.rid \notin Range(itens_faltando')
    ELSE /\ e.value.rid \in Range(itens_faltando')
         /\ ~\E n \in DOMAIN comp_avisos' :
                 comp_avisos'[n].k = "match_truncamento" /\ comp_avisos'[n].rid = e.value.rid

\* C30: in cross-reconciliation, for an expected reference without an exact
\* match and with two or more prefix-matching detected principals in its bank,
\* the candidates whose unit cost differs from the without-BDI unit cost of the
\* reference by more than max(0.02, 0.2% of the expected cost) are excluded
\* before the best candidate is chosen, unless that excludes all of them; a
\* cost missing on either side excludes no candidate
C30_FarCandidatesExcluded ==
    [][Reconciles =>
          LET expected_norm == ExpectedNormFrom(item_refs, <<>>)
          IN \A n \in DOMAIN expected_norm :
                 LET e == expected_norm[n]
                     cost == CustoUnitarioSemBdi(ReferenceOf(e.key).item)
                 IN IsTied(e, principais') =>
                        ReportedAs(e, BestCode([e.value EXCEPT !.sem_bdi = cost],
                                               principais'))]_vars

\* the best candidate is chosen among all the prefix-matching principals,
\* whatever their unit costs
C30_NoCandidateExcluded ==
    [][Reconciles =>
          LET expected_norm == ExpectedNormFrom(item_refs, <<>>)
          IN \A n \in DOMAIN expected_norm :
                 LET e == expected_norm[n]
                     cands == PrefixCandidates(e.value, principais')
                 IN IsTied(e, principais') =>
                        ReportedAs(e, _choose_best_prefix_candidate(e.value.code,
                                          [m \in DOMAIN cands |-> _split_id(cands[m].key)[1]]))]_vars

\* the reconciliation met an expected reference with two prefix-matching
\* principals, one of them at a unit cost far from the one of the budget item
C30_TieWithFarCandidateReached ==
    /\ c_pc = "done"
    /\ LET expected_norm == ExpectedNormFrom(item_refs, <<>>)
       IN \E n \in DOMAIN expected_norm :
              LET e == expected_norm[n]
                  cands == PrefixCandidates(e.value, principais)
                  cost == CustoUnitarioSemBdi(ReferenceOf(e.key).item)
              IN /\ IsTied(e, principais)
                 /\ \E m \in DOMAIN cands : ~_close(cost, cands[m].value.principal.valor_unit)
                 /\ \E m \in DOMAIN cands : _close(cost, cands[m].value.principal.valor_unit)

----------------------------------------------------------------------------
(* C31: the aliases of the auxiliary compositions *)

\* the keys of a dict
KeySet(d) == {d[n].key : n \in DOMAIN d}

\* the values of a dict
ValueSet(d) == {d[n].value : n \in DOMAIN d}

\* C31: after alias resolution no key of aliases_auxiliares is a key of
\* principais, every value of aliases_auxiliares is a key of principais, and no
\* alias maps a key to itself
C31_AliasesWellFormed ==
    c_pc = "done" =>
        /\ KeySet(aliases_aux) \cap KeySet(principais) = {}
        /\ ValueSet(aliases_aux) \subseteq KeySet(principais)
        /\ \A n \in DOMAIN aliases_aux : aliases_aux[n].value # aliases_aux[n].key

\* no key of aliases_auxiliares is a key of principais, and every value is the
\* code of a principal of the same normalized bank written with the bank of
\* the auxiliary line
C31_AliasesUpToBankSpelling ==
    c_pc = "done" =>
        /\ KeySet(aliases_aux) \cap KeySet(principais) = {}
        /\ \A n \in DOMAIN aliases_aux :
               /\ aliases_aux[n].value.banco = aliases_aux[n].key.banco
               /\ \E p \in KeySet(principais) :
                      /\ p.codigo = aliases_aux[n].value.codigo
                      /\ _norm_bank(p.banco) = _norm_bank(aliases_aux[n].value.banco)

\* an alias was recorded
C31_AliasReached == c_pc = "done" /\ aliases_aux # <<>>

----------------------------------------------------------------------------
(* C32: lines dropped and lines cut by sanitize_lines *)

\* the line contains a drop marker
HasDropMarker(txt) == \E m \in SanDropLinesIfContains : Contains(txt, m)

\* the positions of the inline-stop markers, static and dynamic, in the line
StopPositions(txt) ==
    UNION {Occurrences(txt, m) : m \in SanStripInlineFrom \cup SanDynamicMarkers}

\* the line cut at its earliest inline-stop marker, with its whitespace collapsed
CutAtEarliestStop(txt) ==
    LET s == _normalize_space(txt)
    IN IF StopPositions(s) = {} THEN s
       ELSE _normalize_space(SubSeq(s, 1,
                CHOOSE k \in StopPositions(s) : \A j \in StopPositions(s) : k <= j))

\* the cuts of the lines of ls that are not in dropped, without the empty ones
RECURSIVE CutsOfKept(_, _)
CutsOfKept(ls, dropped) ==
    IF ls = <<>> THEN <<>>
    ELSE IF Head(ls) \notin dropped /\ CutAtEarliestStop(Head(ls)) # <<>>
    THEN <<CutAtEarliestStop(Head(ls))>> \o CutsOfKept(Tail(ls), dropped)
    ELSE CutsOfKept(Tail(ls), dropped)

\* C32: sanitize_lines removes every input line that contains a drop marker
\* anywhere in it, and returns each remaining line cut at the earliest
\* occurrence of a static or dynamic inline-stop marker
C32_DropsThenCuts ==
    s_pc = "ret" =>
        s_out = CutsOfKept(s_lines, {txt \in Range(s_lines) : HasDropMarker(txt)})

\* every line is first cut at its earliest inline-stop marker, and it is
\* removed when what is left of it contains a drop marker
C32_CutsThenDrops ==
    s_pc = "ret" =>
        s_out = CutsOfKept(s_lines,
                           {txt \in Range(s_lines) : HasDropMarker(CutAtEarliestStop(txt))})

\* a line with a drop marker behind an inline-stop marker was returned, cut
C32_DropMarkerBehindStopReached ==
    /\ s_pc = "ret"
    /\ \E n \in DOMAIN s_lines :
           /\ HasDropMarker(s_lines[n])
           /\ CutAtEarliestStop(s_lines[n]) \in Range(s_out)
           /\ Len(s_out) = Len(s_lines)

----------------------------------------------------------------------------
(* parse_sinapi between the two passes (parser.py:87-118), on budget trees    *)
(* drawn from what the budget pass can return                                 *)

MaxRefNodes == 3

\* the nodes a tree is drawn from: a group, and LineItems with a composition
\* code, with codes of 8 and of 5 digits that start with 0000, under several
\* banks, and with the placeholder code
RefNodeKinds ==
    {[NoNode EXCEPT !.tipo = "submeta", !.item = "1", !.custo_total = "5,00"]}
    \cup {[NoNode EXCEPT !.tipo = "item", !.item = it, !.codigo = cb[1], !.fonte = cb[2],
                         !.custo_parcial = "5,00"] :
              it \in {"1.1", "1.2"},
              cb \in {<<"88316", "SINAPI">>, <<"00000367", "SINAPI">>,
                      <<"00000367", "Próprio">>, <<"00001", "SINAPI">>,
                      <<"00001", "Sinapi">>, <<"COMPOSICAO", "SINAPI">>}}

RefsInit ==
    /\ pc = "collect"
    /\ \E n \in 1..MaxRefNodes :
       \E parent \in [1..n -> 0..(MaxRefNodes - 1)], kinds \in [1..n -> RefNodeKinds] :
           /\ \A j \in 1..n : parent[j] < j
           /\ root_filhos = TreeOf(parent, kinds).root_filhos
           /\ nodes = TreeOf(parent, kinds).nodes
    /\ raw_lines = <<>>
    /\ lines = <<>>
    /\ i = 0
    /\ stack = << <<0, 0>> >>
    /\ itens_plano = <<>>
    /\ last_item_node = 0
    /\ buf_item = <<>>
    /\ avisos = <<>>
    /\ erros = <<>>
    /\ divergencias = <<>>
    /\ calls = <<>>
    /\ ValidationIdle
    /\ MathIdle /\ CompIdle /\ PrefixIdle /\ TwiceIdle /\ NumberIdle /\ RequestIdle
    /\ ConcurrentIdle /\ SanitizeIdle

\* insumos_no_orc as a set: f"{codigo}|{fonte} (item {item})" of the LineItems
\* of the tree that _is_probably_insumo_codigo accepts, parser.py:95-106
insumos_no_orc ==
    {<<nodes[id].codigo, nodes[id].fonte, nodes[id].item>> :
        id \in {n \in DOMAIN nodes : /\ nodes[n].tipo = "item"
                                     /\ IsProbablyInsumoCodigoTok(nodes[n].codigo,
                                                                  nodes[n].fonte)}}

\* str order of the codes, banks and item numbers of insumos_no_orc
RidRank ==
    ("00000367" :> 1) @@ ("00001" :> 2) @@ ("SINAPI" :> 1) @@ ("Sinapi" :> 2)
    @@ ("1.1" :> 1) @@ ("1.2" :> 2)

\* a < b on the strings of insumos_no_orc
RidLess(a, b) ==
    \/ RidRank[a[1]] < RidRank[b[1]]
    \/ a[1] = b[1] /\ RidRank[a[2]] < RidRank[b[2]]
    \/ a[1] = b[1] /\ a[2] = b[2] /\ RidRank[a[3]] < RidRank[b[3]]

\* sorted(set(insumos_no_orc))
SortedRids(S) ==
    CHOOSE s \in [1..Cardinality(S) -> S] :
        \A a, b \in 1..Cardinality(S) : a < b => RidLess(s[a], s[b])

\* parser.py:87-118: the references are collected, one warning is recorded for
\* every distinct input cited as a budget item, and the placeholder filter
\* removes nothing
CollectItemRefs ==
    /\ pc = "collect"
    /\ item_refs' = item_refs_list
    /\ avisos' = avisos \o [n \in 1..Cardinality(insumos_no_orc) |->
                                [k |-> "insumo_no_orcamento",
                                 codigo |-> SortedRids(insumos_no_orc)[n][1],
                                 fonte |-> SortedRids(insumos_no_orc)[n][2],
                                 item |-> SortedRids(insumos_no_orc)[n][3]]]
    /\ pc' = "collected"
    /\ UNCHANGED <<raw_lines, lines, i, root_filhos, nodes, stack, itens_plano,
                   last_item_node, buf_item, erros, divergencias, calls>>
    /\ UNCHANGED <<c_pc, rows, current_item, current_bloco, principais,
                   auxiliares_globais, recovered_codes, comp_avisos, aliases_aux,
                   itens_faltando, itens_extras>>
    /\ UNCHANGED <<mvars, pvars, tvars, nvars, qvars, kvars, gvars, svars>>

RefsNext == CollectItemRefs

SpecRefs == RefsInit /\ [][RefsNext]_vars

----------------------------------------------------------------------------
(* C33: inputs cited as budget items *)

\* the code is numeric, at least 6 digits long and starts with 0000
IsLongInsumoCodigo(codigo) == codigo \in {"00000367", "00000370"}

\* the LineItems of the tree
LineItems == {id \in DOMAIN nodes : nodes[id].tipo = "item"}

\* the references of a LineItem among those handed over
RefsOf(id) ==
    {n \in DOMAIN item_refs :
        item_refs[n] = Ref(nodes[id].item, nodes[id].codigo, nodes[id].fonte)}

\* the warnings that report a LineItem as an input
InsumoAvisosOf(id) ==
    {n \in DOMAIN avisos :
        avisos[n] = [k |-> "insumo_no_orcamento", codigo |-> nodes[id].codigo,
                     fonte |-> nodes[id].fonte, item |-> nodes[id].item]}

\* the LineItem is left out of the references and reported by one warning
TreatedAsInsumo(id) == RefsOf(id) = {} /\ Cardinality(InsumoAvisosOf(id)) = 1

\* the LineItem has references, as many as there are LineItems with its item
\* number, code and bank, and no warning
TreatedAsComposition(id) ==
    /\ Cardinality(RefsOf(id)) =
           Cardinality({o \in LineItems :
                           /\ nodes[o].item = nodes[id].item
                           /\ nodes[o].codigo = nodes[id].codigo
                           /\ nodes[o].fonte = nodes[id].fonte})
    /\ InsumoAvisosOf(id) = {}

\* C33: a budget LineItem is treated as an input cited as a budget item exactly
\* when its bank is SINAPI and its code is numeric, at least 6 digits long and
\* starts with 0000: it stays in the tree, has no expected reference and is
\* reported by one warning; every other LineItem with a real code has its
\* expected reference
C33_InsumoOfSixDigits ==
    pc = "collected" =>
        \A id \in LineItems :
            IF _norm_bank(nodes[id].fonte) = "SINAPI" /\ IsLongInsumoCodigo(nodes[id].codigo)
            THEN TreatedAsInsumo(id)
            ELSE nodes[id].codigo # "COMPOSICAO" => TreatedAsComposition(id)

\* the same for the codes that are numeric and start with 0000, whatever their
\* length
C33_InsumoOfAnyLength ==
    pc = "collected" =>
        \A id \in LineItems :
            IF _norm_bank(nodes[id].fonte) = "SINAPI" /\ IsInsumoCodigoTok(nodes[id].codigo)
            THEN TreatedAsInsumo(id)
            ELSE nodes[id].codigo # "COMPOSICAO" => TreatedAsComposition(id)

\* a LineItem with a code of 5 digits was reported as an input, beside one
\* with a code of 8 digits
C33_ShortCodeReported ==
    /\ pc = "collected"
    /\ \E a, b \in LineItems :
           /\ nodes[a].codigo = "00001" /\ TreatedAsInsumo(a)
           /\ nodes[b].codigo = "00000367" /\ TreatedAsInsumo(b)

----------------------------------------------------------------------------
(* C34: a budget range with no opening group heading *)

\* no line of the range opens the budget window
EmptyWindow == Window(raw_lines, FALSE) = <<>>

\* C34: when no line of the budget range is a group heading with a total that
\* opens the window, the budget pass returns an empty tree and an empty
\* itens_plano, records exactly one error and no warning or divergence, and
\* the references handed to the composition pass are empty
C34_EmptyWindowOneError ==
    (pc = "done" /\ EmptyWindow) =>
        /\ root_filhos = <<>>
        /\ nodes = <<>>
        /\ itens_plano = <<>>
        /\ Len(erros) = 1
        /\ erros[1].k = "sem_linhas"
        /\ avisos = <<>>
        /\ divergencias = <<>>
        /\ item_refs_list = <<>>

\* the pass has returned from a range with lines, none of which opens the window
C34_Witness ==
    /\ pc = "done"
    /\ Len(raw_lines) >= 2
    /\ EmptyWindow
    /\ \E n \in DOMAIN raw_lines : RE_ITEM_START(raw_lines[n])
    /\ Len(erros) = 1

----------------------------------------------------------------------------
(* parse_sinapi: the composition pass run on the references of a budget tree  *)
(* (parser.py:87-141)                                                         *)

MaxPassNodes == 2

\* the nodes a budget tree is drawn from
PassNodeKinds ==
    {k \in RefNodeKinds : k.tipo = "item" => /\ k.fonte = "SINAPI"
                                             /\ k.codigo \in {"88316", "00000367"}}
    \cup {[NoNode EXCEPT !.tipo = "item", !.item = it, !.codigo = "883164",
                         !.fonte = "SINAPI", !.custo_parcial = "5,00"] : it \in {"1.1", "1.2"}}

\* the characters of a code token
CodeChars ==
    ("88316" :> Code88316) @@ ("883164" :> Code883164) @@ ("00000367" :> Code00000367)

PassesInit ==
    /\ pc = "collect"
    /\ \E n \in 1..MaxPassNodes :
       \E parent \in [1..n -> 0..(MaxPassNodes - 1)], kinds \in [1..n -> PassNodeKinds] :
           /\ \A j \in 1..n : parent[j] < j
           /\ root_filhos = TreeOf(parent, kinds).root_filhos
           /\ nodes = TreeOf(parent, kinds).nodes
           /\ itens_plano = LET its == SelectSeq(kinds, LAMBDA k : k.tipo = "item")
                            IN [j \in DOMAIN its |-> its[j].item]
    /\ raw_lines = <<>>
    /\ lines = <<>>
    /\ i = 0
    /\ stack = << <<0, 0>> >>
    /\ last_item_node = 0
    /\ buf_item = <<>>
    /\ avisos = <<>>
    /\ erros = <<>>
    /\ divergencias = <<>>
    /\ calls = <<>>
    /\ ValidationIdle
    /\ MathIdle /\ CompIdle /\ PrefixIdle /\ TwiceIdle /\ NumberIdle /\ RequestIdle
    /\ ConcurrentIdle /\ SanitizeIdle

\* parser.py:87-134: the references are collected and parse_composicoes_sinapi
\* is called with them
HandOver ==
    /\ pc = "collect"
    /\ c_pc = "off"
    /\ item_refs' = [n \in DOMAIN item_refs_list |->
                        Ref(item_refs_list[n].item,
                            CodeChars[item_refs_list[n].ref_id.codigo],
                            item_refs_list[n].ref_id.banco)]
    /\ c_pc' = "rows"
    /\ pc' = "collected"
    /\ UNCHANGED <<raw_lines, lines, i, root_filhos, nodes, stack, itens_plano,
                   last_item_node, buf_item, avisos, erros, divergencias, calls>>
    /\ UNCHANGED <<rows, current_item, current_bloco, principais,
                   auxiliares_globais, recovered_codes, comp_avisos, aliases_aux,
                   itens_faltando, itens_extras>>
    /\ UNCHANGED <<mvars, pvars, tvars, nvars, qvars, kvars, gvars, svars>>

PassesNext ==
    \/ HandOver
    \/ HeaderRow
    \/ ColumnHeaderRow
    \/ UnclassifiedRow
    \/ ComposicaoRow
    \/ AuxiliarRow
    \/ InsumoRow
    \/ CompFinish

SpecPasses == PassesInit /\ [][PassesNext]_vars

----------------------------------------------------------------------------
(* C35: what the composition pass leaves alone *)

\* the composition pass or its reconciliation takes a step
CompositionStep == c_pc = "rows"

\* C35: from the moment the budget pass has returned, the composition pass and
\* the reconciliation change neither the list of expected references nor the
\* budget tree nor itens_plano; they write only to principais,
\* auxiliares_globais, aliases_auxiliares and the report lists
C35_BudgetAndReferencesUntouched ==
    [][CompositionStep =>
          /\ item_refs' = item_refs
          /\ root_filhos' = root_filhos
          /\ nodes' = nodes
          /\ itens_plano' = itens_plano]_vars

\* the composition pass has returned with a block of an expected reference,
\* the references and the tree being the ones it was handed
C35_Witness ==
    /\ c_pc = "done"
    /\ item_refs # <<>>
    /\ nodes # <<>>
    /\ principais # <<>>
    /\ comp_avisos # <<>>
    /\ \E n \in DOMAIN item_refs : DictHas(principais, item_refs[n].ref_id)

----------------------------------------------------------------------------
(* C36: what hangs under a LineItem *)

\* C36: LineItem nodes are leaves: after any sequence of lines no node, item
\* or group, is attached as a child of a LineItem, so that the partial cost of
\* every LineItem is counted in the sums of the groups that enclose it
C36_LineItemsAreLeaves ==
    \A id \in NodeIds : nodes[id].tipo = "item" => nodes[id].filhos = <<>>

\* a node attached under a LineItem has an item number with more levels than
\* the item number of that LineItem
C36_ChildrenOfItemsAreDeeper ==
    \A id \in NodeIds :
        nodes[id].tipo = "item" =>
            \A c \in Range(nodes[id].filhos) : NodeLevel(c) > NodeLevel(id)

\* the pass has returned a tree in which a LineItem hangs under a LineItem
C36_ItemUnderItemReached ==
    /\ pc = "done"
    /\ \E id \in NodeIds :
           /\ nodes[id].tipo = "item"
           /\ \E c \in Range(nodes[id].filhos) : nodes[c].tipo = "item"

----------------------------------------------------------------------------
(* C37: the main loop of the tree builder ends *)

\* an iteration of the main loop examines line i and leaves the index where it was
ExaminesWithoutAdvancing == InLoop /\ i' = i

\* C37: for every finite sequence of lines the main loop of the tree builder
\* terminates; the line index never decreases, and a line is examined without
\* the index advancing at most once, in the iteration that closes the open
\* buffer on it, after which the buffer is empty and the line is examined
\* again with the index advancing
C37_LoopTerminates ==
    /\ [][i' >= i]_vars
    /\ [][ExaminesWithoutAdvancing => (buf_item # <<>> /\ buf_item' = <<>>)]_vars
    /\ [][(InLoop /\ buf_item = <<>>) => i' > i]_vars
    /\ <>(pc = "done")

\* the pass has returned after an iteration that closed the buffer on a line
\* and examined that line again
C37_Witness ==
    /\ pc = "done"
    /\ Len(lines) >= 3
    /\ i = Len(lines)
    /\ \E n \in DOMAIN calls : calls[n].lookahead # <<>> /\ calls[n].used = 0
                               /\ LooksLikeNewRow(calls[n].lookahead[1])

----------------------------------------------------------------------------
(* C38: itens_plano against the tree *)

RECURSIVE PreOrderItems(_, _)
\* the item numbers of the LineItems among the nodes `ids` and their
\* descendants, each node before its children, children in the order of filhos
PreOrderItems(ids, ns) ==
    IF ids = <<>> THEN <<>>
    ELSE LET n == ns[Head(ids)]
         IN (IF n.tipo = "item" THEN <<n.item>> ELSE <<>>)
            \o PreOrderItems(n.filhos, ns) \o PreOrderItems(Tail(ids), ns)

RECURSIVE PreOrderIds(_, _)
\* the nodes `ids` and their descendants in pre-order
PreOrderIds(ids, ns) ==
    IF ids = <<>> THEN <<>>
    ELSE <<Head(ids)>> \o PreOrderIds(ns[Head(ids)].filhos, ns) \o PreOrderIds(Tail(ids), ns)

\* C38: after any sequence of lines itens_plano lists exactly the item numbers
\* of the LineItem nodes of the tree, one entry per node, in the order of a
\* pre-order traversal of the tree, which is the order of the pushes
C38_ItensPlanoIsPreOrder ==
    /\ itens_plano = PreOrderItems(root_filhos, nodes)
    /\ Len(itens_plano) = Cardinality({id \in NodeIds : nodes[id].tipo = "item"})
    /\ PreOrderIds(root_filhos, nodes) = [id \in NodeIds |-> id]

\* the pass has returned a tree with three LineItems, one of them under another,
\* and a later one beside them
C38_Witness ==
    /\ pc = "done"
    /\ Len(itens_plano) >= 3
    /\ \E id \in NodeIds :
           /\ nodes[id].tipo = "item"
           /\ \E c \in Range(nodes[id].filhos) : nodes[c].tipo = "item"
    /\ \E a, b \in NodeIds :
           /\ a < b
           /\ nodes[a].tipo = "item" /\ nodes[b].tipo = "item"
           /\ \E g \in NodeIds \cup {0} :
                  LET fs == IF g = 0 THEN root_filhos ELSE nodes[g].filhos
                  IN {a, b} \subseteq Range(fs)

----------------------------------------------------------------------------
(* C39: the item divergences and errors of an emitted item *)

\* the item divergences the try_finalize_item call k recorded
ItemDivergencesOf(k) ==
    {n \in DOMAIN divergencias : divergencias[n].tipo = "item" /\ divergencias[n].call = k}

\* the item errors the try_finalize_item call k recorded
ItemErrorsOf(k) ==
    {n \in DOMAIN erros : erros[n].k = "item" /\ erros[n].call = k}

\* the rounds of call k whose candidate row failed its arithmetic validation
FailedRounds(k) == {j \in 0..calls[k].used : RoundStatus(calls[k], j) = "fail"}

\* C39: for every item emitted into the tree the divergence list holds a record
\* of kind item for it exactly when its final arithmetic validation failed, and
\* then exactly one such record and exactly one error; an item that ends up
\* validating, possibly after borrowing lookahead lines, leaves no item divergence
C39_OneDivergenceIffFinalFailure ==
    \A k \in CallIds :
        calls[k].some =>
            IF calls[k].valid
            THEN ItemDivergencesOf(k) = {}
            ELSE Cardinality(ItemDivergencesOf(k)) = 1 /\ Cardinality(ItemErrorsOf(k)) = 1

\* what does hold: an emitted item has one item divergence for each round of
\* its call that failed validation, and one error exactly when the last round
\* failed
C39_OneDivergencePerFailedRound ==
    \A k \in CallIds :
        calls[k].some =>
            /\ Cardinality(ItemDivergencesOf(k)) = Cardinality(FailedRounds(k))
            /\ Cardinality(ItemErrorsOf(k)) = IF calls[k].valid THEN 0 ELSE 1
            /\ ~calls[k].valid => calls[k].used \in FailedRounds(k)

\* an item was emitted valid after a round that failed
C39_ValidAfterFailureReached ==
    \E k \in CallIds : calls[k].some /\ calls[k].valid /\ FailedRounds(k) # {}

====
